---- MODULE Spec2Model ----
(***************************************************************************)
(* Multi-network adapter layer of karibu: the NetworkRegistry, the         *)
(* NetworkFactory adapter cache, the NetworkService facade and the         *)
(* HederaAdapter / EthereumAdapter state machines.                         *)
(*                                                                         *)
(* JavaScript runs on one event loop: a handler runs without interruption  *)
(* until it awaits.  Every action below is the synchronous code between    *)
(* two awaits of one in-flight call; the outcome of an awaited SDK or      *)
(* network call is chosen by the action that resumes after it.             *)
(***************************************************************************)
EXTENDS Integers, Sequences, FiniteSets, TLC

VARIABLES
    env,              \* process.env, fixed for the life of the process
    networks,         \* NetworkRegistry.networks : Map<string, NetworkConfig>
    activeNetworkId,  \* NetworkRegistry._activeNetworkId : string | null
    last,             \* the registry call made by the latest step, with its return value
    adapterCache,     \* NetworkFactory.adapters : Map<string, NetworkAdapter> (object references)
    adapters,         \* the adapter objects created so far, indexed by reference
    stack,            \* per request: the chain of async calls in flight, innermost last
    result,           \* per request: what its latest finished call resolved to
    applied,          \* the latest application of a pure helper: <<function, input, output>>
    contractAddressCache, \* contract-utils: Map<string, string> of Mirror Node answers
    lookups,          \* background fetchEvmAddressFromMirrorNode() promises not settled yet
    deploymentStatuses,   \* direct-deploy route: Map<string, {status, ...}>
    post,             \* the direct-deploy POST in flight: where it is, and its locals
    retry             \* the executeWithRetry() activation in flight, and its locals

\* the state outside the network layer: the argument encoders, the address
\* helpers and the direct-deploy route
utilVars == <<applied, contractAddressCache, lookups, deploymentStatuses, post, retry>>

vars == <<env, networks, activeNetworkId, last, adapterCache, adapters, stack, result,
          utilVars>>

----------------------------------------------------------------------------
(* Values *)

NULL == "<null>"

\* network ids used as keys; "" is the empty string, "unknown-net" is never registered
NetIds == {"hedera-testnet", "ethereum-sepolia", "custom-net", ""}
AllIds == NetIds \cup {"unknown-net"}

\* RPC endpoints.  A URL is a string; HttpUrls are the ones for which
\* url.startsWith('http') is true, "" is the empty (falsy) string.
SepoliaDefaultRpc == "https://rpc.sepolia.org"
HttpUrls == {"https://testnet.hashio.io/api", "https://rpc.sepolia.org",
             "https://rpc2.sepolia.org", "https://ethereum-sepolia.publicnode.com",
             "https://my-node.example", "https://rpc.ankr.com/eth_goerli",
             "https://polygon-rpc.com", "https://polygon.llamarpc.com",
             "https://rpc.ankr.com/polygon", "https://polygon.drpc.org"}
OtherUrls == {"wss://my-node.example/ws", ""}
Urls == HttpUrls \cup OtherUrls

\* credential strings: undefined, a placeholder left from .env.example,
\* a string the SDK cannot parse, a well-formed credential
UNDEFINED == "<undefined>"
OperatorIds == {UNDEFINED, "0.0.YOUR_ACCOUNT_ID", "not-an-account", "0.0.12345"}
OperatorKeys == {UNDEFINED, "YOUR_PRIVATE_KEY", "not-a-key", "302e0201..."}
PrivateKeys == {UNDEFINED, "0xYOUR_PRIVATE_KEY", "not-a-key", "0xabc123..."}

\* s.includes(placeholder)
Includes(s, placeholder) ==
    \/ placeholder = "YOUR_ACCOUNT_ID" /\ s = "0.0.YOUR_ACCOUNT_ID"
    \/ placeholder = "YOUR_PRIVATE_KEY" /\ s \in {"YOUR_PRIVATE_KEY", "0xYOUR_PRIVATE_KEY"}

\* JavaScript truthiness of a string-or-undefined value
Truthy(s) == s \notin {UNDEFINED, NULL, ""}

\* a || b
OrElse(a, b) == IF Truthy(a) THEN a ELSE b

----------------------------------------------------------------------------
(* process.env *)

\* the environments explored: each credential missing, a placeholder,
\* malformed or valid, and the Sepolia RPC override unset, a websocket URL
\* or another https endpoint
EnvOf(i, k, w, u) ==
    [HEDERA_OPERATOR_ID |-> i, HEDERA_OPERATOR_KEY |-> k,
     ETHEREUM_PRIVATE_KEY |-> w, PRIVATE_KEY |-> UNDEFINED, SEPOLIA_RPC_URL |-> u]

Envs ==
    { EnvOf("0.0.12345", "302e0201...", "0xabc123...", UNDEFINED),
      EnvOf(UNDEFINED, "302e0201...", UNDEFINED, UNDEFINED),
      EnvOf("0.0.12345", UNDEFINED, "0xYOUR_PRIVATE_KEY", "wss://my-node.example/ws"),
      EnvOf("0.0.YOUR_ACCOUNT_ID", "302e0201...", "not-a-key", "https://my-node.example"),
      EnvOf("0.0.12345", "YOUR_PRIVATE_KEY", "0xabc123...", "wss://my-node.example/ws"),
      EnvOf("not-an-account", "302e0201...", UNDEFINED, "https://my-node.example"),
      [EnvOf("0.0.12345", "not-a-key", UNDEFINED, UNDEFINED)
          EXCEPT !.PRIVATE_KEY = "0xabc123..."] }

----------------------------------------------------------------------------
(* In-flight calls *)

Requests == {"r1", "r2"}

\* no registry call was made by the latest step, and nothing was written to
\* the status of an adapter
NoCall == [op |-> "none", id |-> NULL, ret |-> "none", ref |-> 0, writes |-> <<>>]

\* one activation of an async function: the function (op), where it is
\* suspended (pc), its arguments (net, ad, q) and locals (i, tried, made,
\* via), and the value of the promise it awaited once that has settled (ret)
Frame(op, net, ad, q) ==
    [op |-> op, i |-> 0, ret |-> "none", net |-> net, ad |-> ad, q |-> q,
     pc |-> "start", tried |-> <<>>, made |-> FALSE, via |-> ""]

\* the latest step ran a part of method op of adapter ad that assigned values,
\* in this order, to its status field
Writes(op, ad, values) ==
    [op |-> op, id |-> NULL, ret |-> "none", ref |-> ad, writes |-> values]

NoAdapter ==
    [kind |-> "none", config |-> [id |-> NULL], operatorId |-> NULL,
     operatorKey |-> NULL, client |-> "null", provider |-> NULL,
     wallet |-> FALSE, status |-> "none", handedOut |-> FALSE]

NoResult ==
    [op |-> "none", ret |-> "none", net |-> NULL, ad |-> 0, q |-> FALSE,
     tried |-> <<>>, made |-> FALSE, via |-> "", error |-> "",
     active |-> NULL, adapter |-> NoAdapter]

Top(r) == stack[r][Len(stack[r])]
Callers(r) == SubSeq(stack[r], 1, Len(stack[r]) - 1)

\* the event loop runs a call until it awaits something that has not settled:
\* a request whose innermost call can go on without I/O runs before anything else
Running(r) ==
    /\ stack[r] # <<>>
    /\ \/ Top(r).pc = "start"
       \/ Top(r).ret # "none"
Quiet == \A r \in Requests : ~Running(r)

\* the awaiting caller receives the settled value
Deliver(callers, value) ==
    IF callers = <<>> THEN <<>>
    ELSE [callers EXCEPT ![Len(callers)].ret = value]

\* the innermost call of r settles with value; a call made by the request
\* itself leaves its outcome in result[r]
Return(r, f, value, error, act, ads) ==
    /\ stack' = [stack EXCEPT ![r] = Deliver(Callers(r), value)]
    /\ result' =
         IF Callers(r) = <<>>
         THEN [result EXCEPT ![r] =
                 [op |-> f.op, ret |-> value, net |-> f.net, ad |-> f.ad,
                  q |-> f.q, tried |-> f.tried, made |-> f.made,
                  via |-> f.via, error |-> error, active |-> act,
                  adapter |-> IF f.ad = 0 THEN NoAdapter ELSE ads[f.ad]]]
         ELSE result

\* the innermost call f of r awaits the call g it makes
Await(r, f, g) ==
    /\ stack' = [stack EXCEPT ![r] = Callers(r) \o <<f, g>>]
    /\ UNCHANGED result

\* the innermost call of r goes on as f, suspended on I/O
Suspend(r, f) ==
    /\ stack' = [stack EXCEPT ![r] = Callers(r) \o <<f>>]
    /\ UNCHANGED result

\* call f goes on to the remote call that pc names and awaits it: tried
\* lists the remote calls an activation has made, in order
Awaits(f, pc) == [f EXCEPT !.pc = pc, !.tried = Append(f.tried, pc)]

\* a request makes a call of its own
Call(r, op, net, ad, q) ==
    /\ Quiet
    /\ stack[r] = <<>>
    /\ stack' = [stack EXCEPT ![r] = <<Frame(op, net, ad, q)>>]
    /\ result' = [result EXCEPT ![r] = NoResult]
    /\ last' = NoCall
    /\ UNCHANGED <<utilVars, env, networks, activeNetworkId, adapterCache, adapters>>

----------------------------------------------------------------------------
(* NetworkRegistry *)

\* the two default networks the model keeps: the Hedera default and one
\* Ethereum network that has fallback endpoints.  chainId is optional in
\* NetworkConfig: 0 stands for a configuration that has none
DEFAULT_NETWORKS ==
    << [id |-> "hedera-testnet",
        operatorId |-> UNDEFINED, operatorKey |-> UNDEFINED,
        type |-> "hedera", isEnabled |-> TRUE,
        rpcUrl |-> "https://testnet.hashio.io/api", chainId |-> 296],
       [id |-> "ethereum-sepolia",
        operatorId |-> UNDEFINED, operatorKey |-> UNDEFINED,
        type |-> "ethereum", isEnabled |-> TRUE,
        rpcUrl |-> SepoliaDefaultRpc, chainId |-> 11155111] >>

applyEnvironmentOverrides(e, network) ==
    IF network.type = "hedera" /\ network.id = "hedera-testnet"
    THEN [network EXCEPT !.operatorId = e.HEDERA_OPERATOR_ID,
                         !.operatorKey = e.HEDERA_OPERATOR_KEY]
    ELSE IF network.type = "ethereum" /\ network.id = "ethereum-sepolia"
    THEN [network EXCEPT !.rpcUrl = OrElse(e.SEPOLIA_RPC_URL, network.rpcUrl)]
    ELSE network

\* Map.set(key, value)
MapSet(m, key, value) ==
    [k \in DOMAIN m \cup {key} |-> IF k = key THEN value ELSE m[k]]

\* Map.delete(key)
MapDelete(m, key) == [k \in DOMAIN m \ {key} |-> m[k]]

initializeDefaultNetworks(e) ==
    [id \in {DEFAULT_NETWORKS[i].id : i \in DOMAIN DEFAULT_NETWORKS} |->
        applyEnvironmentOverrides(e,
            DEFAULT_NETWORKS[CHOOSE i \in DOMAIN DEFAULT_NETWORKS :
                                 DEFAULT_NETWORKS[i].id = id])]

\* one of the default Ethereum networks that getRpcUrls has no case for
EthereumGoerli ==
    [id |-> "ethereum-goerli",
     operatorId |-> UNDEFINED, operatorKey |-> UNDEFINED,
     type |-> "ethereum", isEnabled |-> TRUE,
     rpcUrl |-> "https://rpc.ankr.com/eth_goerli", chainId |-> 5]

\* a default Ethereum network that getGasPrice has a price of its own for
PolygonMainnet ==
    [id |-> "polygon-mainnet",
     operatorId |-> UNDEFINED, operatorKey |-> UNDEFINED,
     type |-> "ethereum", isEnabled |-> TRUE,
     rpcUrl |-> "https://polygon-rpc.com", chainId |-> 137]

\* getNetwork(id) is networks[id] when has(id); undefined is the empty set here
has(id) == id \in DOMAIN networks
getNetwork(id) == IF has(id) THEN {networks[id]} ELSE {}

\* getAllNetworks(), as the ids of the values in the order of the Map, which
\* is the order of insertion: the defaults first
getAllNetworks ==
    SelectSeq(<<"hedera-testnet", "ethereum-sepolia", "custom-net", "">>, has)

getActiveNetwork ==
    IF ~Truthy(activeNetworkId) THEN {} ELSE getNetwork(activeNetworkId)

\* networks handed to addNetwork: an unsupported chain family, and an Ethereum
\* network keyed by the empty string with a websocket endpoint
AddableNetworks ==
    { [id |-> "custom-net",
       operatorId |-> UNDEFINED, operatorKey |-> UNDEFINED,
       type |-> "solana", isEnabled |-> TRUE,
       rpcUrl |-> "https://my-node.example", chainId |-> 0],
      [id |-> "",
       operatorId |-> UNDEFINED, operatorKey |-> UNDEFINED,
       type |-> "ethereum", isEnabled |-> TRUE,
       rpcUrl |-> "wss://my-node.example/ws", chainId |-> 31337] }

\* further networks handed to addNetwork: one under the id of a default
\* network, and a custom endpoint of the chain a default network is on
CustomNetworks ==
    AddableNetworks \cup
    { [id |-> "ethereum-sepolia",
       operatorId |-> UNDEFINED, operatorKey |-> UNDEFINED,
       type |-> "ethereum", isEnabled |-> TRUE,
       rpcUrl |-> "https://my-node.example", chainId |-> 11155111],
      [id |-> "custom-net",
       operatorId |-> UNDEFINED, operatorKey |-> UNDEFINED,
       type |-> "ethereum", isEnabled |-> TRUE,
       rpcUrl |-> "https://my-node.example", chainId |-> 11155111] }

\* Partial<NetworkConfig> values handed to updateNetwork
Updates == { [rpcUrl |-> "https://my-node.example"], [isEnabled |-> FALSE] }

\* { ...network, ...updates }
Spread(network, updates) ==
    [f \in DOMAIN network |->
        IF f \in DOMAIN updates THEN updates[f] ELSE network[f]]

addNetwork(network) ==
    /\ Quiet
    /\ networks' = MapSet(networks, network.id, network)
    /\ last' = [op |-> "addNetwork", id |-> network.id, ret |-> "void", ref |-> 0, writes |-> <<>>]
    /\ UNCHANGED <<utilVars, env, activeNetworkId, adapterCache, adapters, stack, result>>

updateNetwork(id, updates) ==
    /\ Quiet
    /\ IF ~has(id)
       THEN /\ last' = [op |-> "updateNetwork", id |-> id,
                        ret |-> "undefined", ref |-> 0, writes |-> <<>>]
            /\ UNCHANGED networks
       ELSE /\ networks' = MapSet(networks, id, Spread(networks[id], updates))
            /\ last' = [op |-> "updateNetwork", id |-> id,
                        ret |-> "updated", ref |-> 0, writes |-> <<>>]
    /\ UNCHANGED <<utilVars, env, activeNetworkId, adapterCache, adapters, stack, result>>

\* a bug removeNetwork could have: the active network deleted like any other
removeNetworkUnguarded(id) ==
    /\ Quiet
    /\ networks' = MapDelete(networks, id)
    /\ last' = [op |-> "removeNetwork", id |-> id,
                ret |-> IF has(id) THEN "true" ELSE "false", ref |-> 0, writes |-> <<>>]
    /\ UNCHANGED <<utilVars, env, activeNetworkId, adapterCache, adapters, stack, result>>

removeNetwork(id) ==
    /\ Quiet
    /\ IF activeNetworkId = id
       THEN /\ last' = [op |-> "removeNetwork", id |-> id, ret |-> "false", ref |-> 0, writes |-> <<>>]
            /\ UNCHANGED networks
       ELSE /\ networks' = MapDelete(networks, id)
            /\ last' = [op |-> "removeNetwork", id |-> id,
                ret |-> IF has(id) THEN "true" ELSE "false", ref |-> 0, writes |-> <<>>]
    /\ UNCHANGED <<utilVars, env, activeNetworkId, adapterCache, adapters, stack, result>>

\* a bug setActiveNetwork could have: any id accepted
setActiveNetworkUnchecked(id) ==
    /\ Quiet
    /\ activeNetworkId' = id
    /\ last' = [op |-> "setActiveNetwork", id |-> id, ret |-> "true", ref |-> 0, writes |-> <<>>]
    /\ UNCHANGED <<utilVars, env, networks, adapterCache, adapters, stack, result>>

setActiveNetwork(id) ==
    /\ Quiet
    /\ IF ~has(id)
       THEN /\ last' = [op |-> "setActiveNetwork", id |-> id, ret |-> "false", ref |-> 0, writes |-> <<>>]
            /\ UNCHANGED activeNetworkId
       ELSE /\ activeNetworkId' = id
            /\ last' = [op |-> "setActiveNetwork", id |-> id, ret |-> "true", ref |-> 0, writes |-> <<>>]
    /\ UNCHANGED <<utilVars, env, networks, adapterCache, adapters, stack, result>>

----------------------------------------------------------------------------
(* NetworkFactory and the adapter objects *)

\* new HederaAdapter(config) / new EthereumAdapter(config); handedOut tells
\* whether the factory has returned the object to a caller
HederaAdapter(config) ==
    [kind |-> "hedera", config |-> config,
     operatorId |-> OrElse(config.operatorId, NULL),
     operatorKey |-> OrElse(config.operatorKey, NULL),
     client |-> "null", provider |-> NULL, wallet |-> FALSE,
     status |-> "disconnected", handedOut |-> FALSE]

EthereumAdapter(config) ==
    [kind |-> "ethereum", config |-> config,
     operatorId |-> NULL, operatorKey |-> NULL,
     client |-> "null", provider |-> NULL, wallet |-> FALSE,
     status |-> "disconnected", handedOut |-> FALSE]

\* the adapters createAdapter builds for a configuration: none for an
\* unsupported type
createAdapter(networkConfig) ==
    CASE networkConfig.type = "hedera" -> <<HederaAdapter(networkConfig)>>
      [] networkConfig.type = "ethereum" -> <<EthereumAdapter(networkConfig)>>
      [] OTHER -> <<>>

\* NetworkFactory.getAdapter(networkId): the reference it returns (0 is
\* null), and the adapter objects and the cache after the call
getAdapterRef(networkId) ==
    IF networkId \in DOMAIN adapterCache THEN adapterCache[networkId]
    ELSE IF ~has(networkId) THEN 0
    ELSE IF createAdapter(networks[networkId]) = <<>> THEN 0
    ELSE Len(adapters) + 1

getAdapterObjs(networkId) ==
    LET objs == IF networkId \notin DOMAIN adapterCache /\ has(networkId)
                THEN adapters \o createAdapter(networks[networkId])
                ELSE adapters
    IN IF getAdapterRef(networkId) = 0 THEN objs
       ELSE [objs EXCEPT ![getAdapterRef(networkId)].handedOut = TRUE]

getAdapterCache(networkId) ==
    IF /\ networkId \notin DOMAIN adapterCache
       /\ has(networkId)
       /\ createAdapter(networks[networkId]) # <<>>
    THEN MapSet(adapterCache, networkId, Len(adapters) + 1)
    ELSE adapterCache

\* NetworkFactory.getAdapter(networkId), called on its own
getAdapter(networkId) ==
    /\ Quiet
    /\ adapters' = getAdapterObjs(networkId)
    /\ adapterCache' = getAdapterCache(networkId)
    /\ last' = [op |-> "getAdapter", id |-> networkId, ret |-> "adapter",
                ref |-> getAdapterRef(networkId), writes |-> <<>>]
    /\ UNCHANGED <<utilVars, env, networks, activeNetworkId, stack, result>>

\* NetworkFactory.getActiveAdapter(), called on its own
getActiveAdapter ==
    /\ Quiet
    /\ IF ~Truthy(activeNetworkId)
       THEN /\ last' = [op |-> "getActiveAdapter", id |-> activeNetworkId,
                        ret |-> "null", ref |-> 0, writes |-> <<>>]
            /\ UNCHANGED <<adapterCache, adapters>>
       ELSE /\ adapters' = getAdapterObjs(activeNetworkId)
            /\ adapterCache' = getAdapterCache(activeNetworkId)
            /\ last' = [op |-> "getActiveAdapter", id |-> activeNetworkId,
                        ret |-> "adapter",
                        ref |-> getAdapterRef(activeNetworkId), writes |-> <<>>]
    /\ UNCHANGED <<utilVars, env, networks, activeNetworkId, stack, result>>

----------------------------------------------------------------------------
(* EthereumAdapter.initialize *)

\* the hardcoded fallback endpoints of getRpcUrls
Fallbacks(id) ==
    CASE id = "ethereum-sepolia" ->
           << "https://rpc2.sepolia.org", "https://rpc.sepolia.org",
              "https://ethereum-sepolia.publicnode.com" >>
      [] id = "polygon-mainnet" ->
           << "https://polygon.llamarpc.com", "https://rpc.ankr.com/polygon",
              "https://polygon.drpc.org" >>
      [] OTHER -> <<>>

\* [...new Set(urls)] : the first occurrence of each element, in order
Unique(urls) ==
    LET F[j \in 0..Len(urls)] ==
            IF j = 0 THEN <<>>
            ELSE IF \E k \in 1..(j - 1) : urls[k] = urls[j] THEN F[j - 1]
            ELSE Append(F[j - 1], urls[j])
    IN F[Len(urls)]

\* url && url.startsWith('http')
ValidUrl(url) == Truthy(url) /\ url \in HttpUrls

getRpcUrls(config) ==
    SelectSeq(Unique(<<config.rpcUrl>> \o Fallbacks(config.id)), ValidUrl)

\* new ethers.Wallet(privateKey, provider) returns instead of throwing
WalletConstructs(privateKey) == privateKey = "0xabc123..."

\* what an awaited provider.getNetwork() raced against the 10 s timer does
RpcOutcomes == {"ok", "fail", "timeout"}

\* the wallet step of initialize: whether this call builds a wallet
InitializesWallet(e) ==
    LET privateKey == OrElse(e.ETHEREUM_PRIVATE_KEY, e.PRIVATE_KEY)
    IN /\ Truthy(privateKey)
       /\ ~Includes(privateKey, "YOUR_PRIVATE_KEY")
       /\ WalletConstructs(privateKey)

\* a bug the catch block could have: the failed provider left in place
ProviderKeptAfterFailure(rpcUrls, i) ==
    IF i < Len(rpcUrls) THEN rpcUrls[i + 1] ELSE rpcUrls[i]

\* this.provider once the attempt on rpcUrls[i] has failed: the catch block
\* resets it, and the next iteration, if there is one, builds the next provider
ProviderAfterFailure(rpcUrls, i) ==
    IF i < Len(rpcUrls) THEN rpcUrls[i + 1] ELSE NULL

\* initialize() up to its first await
EthereumInitializeStart(r) ==
    /\ stack[r] # <<>>
    /\ LET f == Top(r)
           rpcUrls == getRpcUrls(adapters[f.ad].config)
       IN /\ f.op = "initialize" /\ f.pc = "start"
          /\ adapters[f.ad].kind = "ethereum"
          /\ IF rpcUrls = <<>>
             THEN /\ adapters' = [adapters EXCEPT ![f.ad].status = "disconnected"]
                  /\ Return(r, [f EXCEPT !.via = "no candidates"], "true", "",
                            activeNetworkId, adapters')
             ELSE /\ adapters' = [adapters EXCEPT ![f.ad].status = "connecting",
                                                  ![f.ad].provider = rpcUrls[1]]
                  /\ Suspend(r, [f EXCEPT !.pc = "await_getNetwork", !.i = 1,
                                          !.tried = <<rpcUrls[1]>>])
    /\ last' = NoCall
    /\ UNCHANGED <<utilVars, env, networks, activeNetworkId, adapterCache>>

\* initialize() from the settling of provider.getNetwork() for rpcUrls[i]
EthereumInitializeGetNetwork(r, outcome) ==
    /\ Quiet
    /\ stack[r] # <<>>
    /\ LET f == Top(r)
           rpcUrls == getRpcUrls(adapters[f.ad].config)
       IN /\ f.op = "initialize" /\ f.pc = "await_getNetwork"
          /\ IF outcome = "ok"
             THEN LET made == InitializesWallet(env)
                  IN /\ adapters' =
                          [adapters EXCEPT ![f.ad].wallet = IF made THEN TRUE ELSE @,
                                           ![f.ad].status = "connected"]
                     /\ Return(r, [f EXCEPT !.made = made, !.via = "connected"],
                               "true", "", activeNetworkId, adapters')
             ELSE IF f.i < Len(rpcUrls)
             THEN /\ adapters' = [adapters EXCEPT
                                    ![f.ad].provider = ProviderAfterFailure(rpcUrls, f.i)]
                  /\ Suspend(r, [f EXCEPT !.i = f.i + 1,
                                          !.tried = Append(f.tried, rpcUrls[f.i + 1])])
             ELSE /\ adapters' = [adapters EXCEPT
                                    ![f.ad].provider = ProviderAfterFailure(rpcUrls, f.i),
                                    ![f.ad].status = "disconnected"]
                  /\ Return(r, [f EXCEPT !.via = "exhausted"], "true", "",
                            activeNetworkId, adapters')
    /\ last' = NoCall
    /\ UNCHANGED <<utilVars, env, networks, activeNetworkId, adapterCache>>

\* what an awaited ethers call does: it resolves, or it rejects with an Error
\* that carries a reason, with one that carries a message only, or with a
\* value that has neither
EthersErrors == {"execution reverted", "timeout", "<not an Error>"}
EthersOutcomes == {"ok"} \cup EthersErrors

\* the message the catch block of deployContract or callContract reports:
\* error.reason, else error.message, else the default
ethereumErrorMessage(op, thrown) ==
    IF thrown # "<not an Error>" THEN thrown
    ELSE IF op = "deployContract" THEN "Failed to deploy contract"
    ELSE "Failed to call contract function"

\* a bug deployContract and callContract could have: no wallet check before
\* the transaction is built
EthereumProceedUnchecked(r, f, abi, gasLimit) ==
    IF f.op = "callContract" /\ ~abi
    THEN Return(r, f, "failure", "ABI is required for contract calls",
                activeNetworkId, adapters)
    ELSE IF f.op = "callContract" /\ f.q
    THEN Suspend(r, Awaits(f, "await_call"))
    ELSE IF ~gasLimit
    THEN Suspend(r, Awaits(f, "await_estimateGas"))
    ELSE Suspend(r, Awaits(f, IF f.op = "deployContract" THEN "await_deploy"
                              ELSE "await_sendTransaction"))

\* deployContract and callContract once a provider is there: the ABI check
\* (callContract), the read-only branch, the wallet check, and the gas limit,
\* which is estimated when params carries none
EthereumProceed(r, f, abi, gasLimit) ==
    IF f.op = "callContract" /\ ~abi
    THEN Return(r, f, "failure", "ABI is required for contract calls",
                activeNetworkId, adapters)
    ELSE IF f.op = "callContract" /\ f.q
    THEN Suspend(r, Awaits(f, "await_call"))
    ELSE IF ~adapters[f.ad].wallet
    THEN Return(r, f, "failure", "No wallet configured", activeNetworkId, adapters)
    ELSE IF ~gasLimit
    THEN Suspend(r, Awaits(f, "await_estimateGas"))
    ELSE Suspend(r, Awaits(f, IF f.op = "deployContract" THEN "await_deploy"
                              ELSE "await_sendTransaction"))

\* the head of deployContract and of callContract: without a provider,
\* initialize() is awaited first
EthereumEnsureProvider(r, op, abi, gasLimit) ==
    /\ stack[r] # <<>>
    /\ LET f == Top(r)
       IN /\ f.op = op /\ f.pc = "start"
          /\ adapters[f.ad].kind = "ethereum"
          /\ IF adapters[f.ad].provider = NULL
             THEN Await(r, [f EXCEPT !.pc = "await_initialize"],
                        Frame("initialize", NULL, f.ad, FALSE))
             ELSE EthereumProceed(r, f, abi, gasLimit)
    /\ last' = NoCall
    /\ UNCHANGED <<utilVars, env, networks, activeNetworkId, adapterCache, adapters>>

\* after the awaited initialize(): false or still no provider throws into
\* the catch block
EthereumProviderOrThrow(r, op, abi, gasLimit) ==
    /\ stack[r] # <<>>
    /\ LET f == Top(r)
       IN /\ f.op = op /\ f.pc = "await_initialize" /\ f.ret # "none"
          /\ adapters[f.ad].kind = "ethereum"
          /\ IF f.ret # "true" \/ adapters[f.ad].provider = NULL
             THEN Return(r, f, "failure", "provider not available",
                         activeNetworkId, adapters)
             ELSE EthereumProceed(r, [f EXCEPT !.ret = "none"], abi, gasLimit)
    /\ last' = NoCall
    /\ UNCHANGED <<utilVars, env, networks, activeNetworkId, adapterCache, adapters>>

\* an awaited ethers call of op settles: on success the call goes on to next
\* ("" when the call is complete), on failure the catch block answers
EthereumStep(r, op, pc, outcome, next) ==
    /\ Quiet
    /\ stack[r] # <<>>
    /\ LET f == Top(r)
       IN /\ f.op = op /\ f.pc = pc
          /\ adapters[f.ad].kind = "ethereum"
          /\ IF outcome # "ok"
             THEN Return(r, f, "failure", ethereumErrorMessage(op, outcome),
                         activeNetworkId, adapters)
             ELSE IF next = ""
             THEN Return(r, f, "success", "", activeNetworkId, adapters)
             ELSE Suspend(r, Awaits(f, next))
    /\ last' = NoCall
    /\ UNCHANGED <<utilVars, env, networks, activeNetworkId, adapterCache, adapters>>

\* the awaited estimateGas(params) settles: it answers the estimate or, when
\* the estimate fails, a default, so the caller always goes on to submit
EthereumEstimateGas(r, outcome) ==
    /\ Quiet
    /\ stack[r] # <<>>
    /\ LET f == Top(r)
       IN /\ f.pc = "await_estimateGas"
          /\ adapters[f.ad].kind = "ethereum"
          /\ Suspend(r, Awaits(f, IF f.op = "deployContract" THEN "await_deploy"
                                   ELSE "await_sendTransaction"))
    /\ last' = NoCall
    /\ UNCHANGED <<utilVars, env, networks, activeNetworkId, adapterCache, adapters>>

EthereumDeployStart(r, gasLimit) ==
    EthereumEnsureProvider(r, "deployContract", TRUE, gasLimit)
EthereumDeployAfterInitialize(r, gasLimit) ==
    EthereumProviderOrThrow(r, "deployContract", TRUE, gasLimit)
\* contractFactory.deploy(...) sends the deployment transaction
EthereumDeploySend(r, outcome) ==
    EthereumStep(r, "deployContract", "await_deploy", outcome, "await_deployed")
\* contract.deployed() waits for the transaction to be mined
EthereumDeployed(r, outcome) ==
    EthereumStep(r, "deployContract", "await_deployed", outcome, "")

EthereumCallStart(r, abi, gasLimit) ==
    EthereumEnsureProvider(r, "callContract", abi, gasLimit)
EthereumCallAfterInitialize(r, abi, gasLimit) ==
    EthereumProviderOrThrow(r, "callContract", abi, gasLimit)
\* contract[functionName](...parameters) on the provider, raced against the timer
EthereumCallQuery(r, outcome) ==
    EthereumStep(r, "callContract", "await_call", outcome, "")
\* a bug callContract could have: success reported without the receipt
EthereumCallSendWithoutWait(r, outcome) ==
    EthereumStep(r, "callContract", "await_sendTransaction", outcome, "")
\* contract[functionName](...parameters, callOptions) on the wallet; outcome is
\* also "tx.wait is not a function", which the handler throws itself when the
\* function is a view function and the call answers its value
EthereumCallSend(r, outcome) ==
    EthereumStep(r, "callContract", "await_sendTransaction", outcome, "await_wait")
\* tx.wait() waits for the receipt
EthereumCallWait(r, outcome) ==
    EthereumStep(r, "callContract", "await_wait", outcome, "")

----------------------------------------------------------------------------
(* HederaAdapter *)

\* AccountId.fromString / PrivateKey.fromString return instead of throwing
AccountIdParses(operatorId) == operatorId = "0.0.12345"
PrivateKeyParses(operatorKey) == operatorKey = "302e0201..."

\* a bug the credential check could have: placeholders taken for credentials
CredentialsAbsent(a) == ~Truthy(a.operatorId) \/ ~Truthy(a.operatorKey)

\* the credential check at the head of initialize
CredentialsMissing(a) ==
    \/ ~Truthy(a.operatorId)
    \/ ~Truthy(a.operatorKey)
    \/ Includes(a.operatorId, "YOUR_ACCOUNT_ID")
    \/ Includes(a.operatorKey, "YOUR_PRIVATE_KEY")

\* what an awaited Hedera SDK call does: it resolves, or it rejects with an
\* Error carrying one of these messages, or with a value that is no Error
SdkErrors ==
    {"INSUFFICIENT_GAS", "CONTRACT_REVERT_EXECUTED",
     "INSUFFICIENT_ACCOUNT_BALANCE", "Connection timeout", "<not an Error>"}
SdkOutcomes == {"ok"} \cup SdkErrors

\* initialize() up to its first await
HederaInitializeStart(r) ==
    /\ stack[r] # <<>>
    /\ LET f == Top(r)
           a == adapters[f.ad]
       IN /\ f.op = "initialize" /\ f.pc = "start"
          /\ a.kind = "hedera"
          /\ IF CredentialsMissing(a)
             THEN /\ adapters' = [adapters EXCEPT ![f.ad].status = "disconnected"]
                  /\ last' = Writes("initialize", f.ad, <<"connecting", "disconnected">>)
                  /\ Return(r, [f EXCEPT !.via = "read-only"], "true", "",
                            activeNetworkId, adapters')
             ELSE IF ~(AccountIdParses(a.operatorId) /\ PrivateKeyParses(a.operatorKey))
             THEN \* Client.forName has returned, setOperator's arguments throw
                  /\ adapters' = [adapters EXCEPT ![f.ad].client = "noOperator",
                                                  ![f.ad].status = "connected"]
                  /\ last' = Writes("initialize", f.ad, <<"connecting", "connected">>)
                  /\ Return(r, [f EXCEPT !.via = "operator rejected"], "true", "",
                            activeNetworkId, adapters')
             ELSE /\ adapters' = [adapters EXCEPT ![f.ad].client = "operator",
                                                  ![f.ad].status = "connecting"]
                  /\ last' = Writes("initialize", f.ad, <<"connecting">>)
                  /\ Suspend(r, [f EXCEPT !.pc = "await_balance"])
    /\ UNCHANGED <<utilVars, env, networks, activeNetworkId, adapterCache>>

\* a bug initialize could have: a failed connection test raised to the caller
HederaInitializeBalanceThrows(r, outcome) ==
    /\ Quiet
    /\ stack[r] # <<>>
    /\ LET f == Top(r)
       IN /\ f.op = "initialize" /\ f.pc = "await_balance"
          /\ adapters' = [adapters EXCEPT ![f.ad].status = "connected"]
          /\ Return(r, f, IF outcome = "ok" THEN "true" ELSE "throw", "",
                    activeNetworkId, adapters')
    /\ last' = Writes("initialize", Top(r).ad, <<"connected">>)
    /\ UNCHANGED <<utilVars, env, networks, activeNetworkId, adapterCache>>

\* a bug initialize could have: a failed connection test marking the adapter ERROR
HederaInitializeBalanceMarksError(r, outcome) ==
    /\ Quiet
    /\ stack[r] # <<>>
    /\ LET f == Top(r)
           status == IF outcome = "ok" THEN "connected" ELSE "error"
       IN /\ f.op = "initialize" /\ f.pc = "await_balance"
          /\ adapters' = [adapters EXCEPT ![f.ad].status = status]
          /\ last' = Writes("initialize", f.ad, <<status>>)
          /\ Return(r, [f EXCEPT !.via = IF outcome = "ok" THEN "connected"
                                         ELSE "connection test failed"],
                    "true", "", activeNetworkId, adapters')
    /\ UNCHANGED <<utilVars, env, networks, activeNetworkId, adapterCache>>

\* initialize() from the settling of the balance query raced against the timer
HederaInitializeBalance(r, outcome) ==
    /\ Quiet
    /\ stack[r] # <<>>
    /\ LET f == Top(r)
       IN /\ f.op = "initialize" /\ f.pc = "await_balance"
          /\ adapters' = [adapters EXCEPT ![f.ad].status = "connected"]
          /\ Return(r, [f EXCEPT !.via = IF outcome = "ok" THEN "connected"
                                         ELSE "connection test failed"],
                    "true", "", activeNetworkId, adapters')
    /\ last' = Writes("initialize", Top(r).ad, <<"connected">>)
    /\ UNCHANGED <<utilVars, env, networks, activeNetworkId, adapterCache>>

\* the message deployContract's catch block reports for a thrown value
deployErrorMessage(thrown) ==
    CASE thrown = "<not an Error>" -> "Failed to deploy contract"
      [] thrown = "INSUFFICIENT_GAS" ->
           "Deployment failed due to insufficient gas. Try increasing the gas limit."
      [] thrown = "CONTRACT_REVERT_EXECUTED" ->
           "Contract deployment reverted. Check your constructor logic."
      [] thrown = "INSUFFICIENT_ACCOUNT_BALANCE" ->
           "Insufficient account balance to deploy the contract."
      [] OTHER -> thrown

\* the message callContract's catch block reports for a thrown value
callErrorMessage(thrown) ==
    CASE thrown = "<not an Error>" -> "Failed to call contract function"
      [] thrown = "INSUFFICIENT_GAS" ->
           "Function call failed due to insufficient gas. Try increasing the gas limit."
      [] thrown = "CONTRACT_REVERT_EXECUTED" ->
           "Function call reverted. Check your function inputs and logic."
      [] OTHER -> thrown

\* the message the catch block of op reports
errorMessage(op, thrown) ==
    IF op = "deployContract" THEN deployErrorMessage(thrown)
    ELSE callErrorMessage(thrown)

\* the SDK can carry out a query or a transaction only on a client that has
\* an operator to pay for it
SdkCan(a, outcome) == outcome = "ok" => a.client = "operator"

\* getStatus() up to its await: the liveness query is made only on a
\* CONNECTED adapter that has a client
HederaGetStatusStart(r) ==
    /\ stack[r] # <<>>
    /\ LET f == Top(r)
           a == adapters[f.ad]
       IN /\ f.op = "getStatus" /\ f.pc = "start"
          /\ a.kind = "hedera"
          /\ IF a.status = "connected" /\ a.client # "null"
             THEN Suspend(r, [f EXCEPT !.pc = "await_liveness"])
             ELSE Return(r, f, a.status, "", activeNetworkId, adapters)
    /\ last' = NoCall
    /\ UNCHANGED <<utilVars, env, networks, activeNetworkId, adapterCache, adapters>>

\* getStatus() from the settling of its liveness query: the catch block
\* marks the adapter ERROR, and the status of that moment is returned
HederaGetStatusQuery(r, outcome) ==
    /\ Quiet
    /\ stack[r] # <<>>
    /\ LET f == Top(r)
       IN /\ f.op = "getStatus" /\ f.pc = "await_liveness"
          /\ SdkCan(adapters[f.ad], outcome)
          /\ IF outcome = "ok"
             THEN /\ UNCHANGED adapters
                  /\ last' = NoCall
                  /\ Return(r, f, adapters[f.ad].status, "", activeNetworkId, adapters)
             ELSE /\ adapters' = [adapters EXCEPT ![f.ad].status = "error"]
                  /\ last' = Writes("getStatus", f.ad, <<"error">>)
                  /\ Return(r, f, "error", "", activeNetworkId, adapters')
    /\ UNCHANGED <<utilVars, env, networks, activeNetworkId, adapterCache>>

\* the head of deployContract and of callContract: without a client,
\* initialize() is awaited first
HederaEnsureClient(r, op, next) ==
    /\ stack[r] # <<>>
    /\ LET f == Top(r)
       IN /\ f.op = op /\ f.pc = "start"
          /\ adapters[f.ad].kind = "hedera"
          /\ IF adapters[f.ad].client = "null"
             THEN Await(r, [f EXCEPT !.pc = "await_initialize"],
                        Frame("initialize", NULL, f.ad, FALSE))
             ELSE Suspend(r, Awaits(f, next))
    /\ last' = NoCall
    /\ UNCHANGED <<utilVars, env, networks, activeNetworkId, adapterCache, adapters>>

\* after the awaited initialize(): still no client throws into the catch block
HederaClientOrThrow(r, op, next) ==
    /\ stack[r] # <<>>
    /\ LET f == Top(r)
       IN /\ f.op = op /\ f.pc = "await_initialize" /\ f.ret # "none"
          /\ adapters[f.ad].kind = "hedera"
          /\ IF f.ret = "throw"
             THEN Return(r, f, "failure", errorMessage(op, "initialize threw"),
                         activeNetworkId, adapters)
             ELSE IF adapters[f.ad].client = "null"
             THEN Return(r, f, "failure", errorMessage(op, "Hedera client not initialized"),
                         activeNetworkId, adapters)
             ELSE Suspend(r, [Awaits(f, next) EXCEPT !.ret = "none"])
    /\ last' = NoCall
    /\ UNCHANGED <<utilVars, env, networks, activeNetworkId, adapterCache, adapters>>

\* an awaited SDK call of op settles: on success the call goes on to next
\* ("" when the call is complete), on failure the catch block answers
HederaSdkStep(r, op, pc, outcome, next) ==
    /\ Quiet
    /\ stack[r] # <<>>
    /\ LET f == Top(r)
       IN /\ f.op = op /\ f.pc = pc
          /\ adapters[f.ad].kind = "hedera"
          /\ SdkCan(adapters[f.ad], outcome)
          /\ IF outcome # "ok"
             THEN Return(r, f, "failure", errorMessage(op, outcome), activeNetworkId, adapters)
             ELSE IF next = ""
             THEN Return(r, f, "success", "", activeNetworkId, adapters)
             ELSE Suspend(r, Awaits(f, next))
    /\ last' = NoCall
    /\ UNCHANGED <<utilVars, env, networks, activeNetworkId, adapterCache, adapters>>

HederaDeployStart(r) == HederaEnsureClient(r, "deployContract", "await_execute")
HederaDeployAfterInitialize(r) ==
    HederaClientOrThrow(r, "deployContract", "await_execute")
HederaDeployExecute(r, outcome) ==
    HederaSdkStep(r, "deployContract", "await_execute", outcome, "await_getReceipt")
\* outcome is also 'Failed to get contract ID from receipt', which the
\* handler throws itself for a receipt that carries no contract id
HederaDeployGetReceipt(r, outcome) ==
    HederaSdkStep(r, "deployContract", "await_getReceipt", outcome, "")

HederaCallStart(r) ==
    HederaEnsureClient(r, "callContract",
                       IF Top(r).q THEN "await_query" ELSE "await_execute")
HederaCallAfterInitialize(r) ==
    HederaClientOrThrow(r, "callContract",
                        IF Top(r).q THEN "await_query" ELSE "await_execute")
HederaCallQuery(r, outcome) ==
    HederaSdkStep(r, "callContract", "await_query", outcome, "")
HederaCallExecute(r, outcome) ==
    HederaSdkStep(r, "callContract", "await_execute", outcome, "await_getReceipt")
HederaCallGetReceipt(r, outcome) ==
    HederaSdkStep(r, "callContract", "await_getReceipt", outcome, "")

----------------------------------------------------------------------------
(* getContractBytecode of both adapters *)

\* getContractBytecode() up to its first await: the Ethereum adapter needs a
\* provider and awaits initialize() without one, the Hedera adapter asks the
\* mirror node
getContractBytecodeStart(r) ==
    /\ stack[r] # <<>>
    /\ LET f == Top(r)
           a == adapters[f.ad]
       IN /\ f.op = "getContractBytecode" /\ f.pc = "start"
          /\ IF a.kind = "hedera" THEN Suspend(r, Awaits(f, "await_mirrorNode"))
             ELSE IF a.provider = NULL
             THEN Await(r, [f EXCEPT !.pc = "await_initialize"],
                        Frame("initialize", NULL, f.ad, FALSE))
             ELSE Suspend(r, Awaits(f, "await_getCode"))
    /\ last' = NoCall
    /\ UNCHANGED <<utilVars, env, networks, activeNetworkId, adapterCache, adapters>>

\* after the awaited initialize(): still no provider throws, and the catch
\* block throws the error again
getContractBytecodeAfterInitialize(r) ==
    /\ stack[r] # <<>>
    /\ LET f == Top(r)
       IN /\ f.op = "getContractBytecode" /\ f.pc = "await_initialize"
          /\ f.ret # "none"
          /\ IF f.ret # "true" \/ adapters[f.ad].provider = NULL
             THEN Return(r, f, "throw", "provider not available",
                         activeNetworkId, adapters)
             ELSE Suspend(r, [Awaits(f, "await_getCode") EXCEPT !.ret = "none"])
    /\ last' = NoCall
    /\ UNCHANGED <<utilVars, env, networks, activeNetworkId, adapterCache, adapters>>

\* what the awaited lookup does: it answers bytecode, it answers none ('0x'
\* from getCode, no bytecode in the mirror node's answer), or it fails
BytecodeOutcomes == {"ok", "no bytecode", "timeout"}

\* the lookup settles: bytecode is returned; for none the handler throws, and
\* whatever is thrown the catch block logs and throws again
getContractBytecodeSettle(r, outcome) ==
    /\ Quiet
    /\ stack[r] # <<>>
    /\ LET f == Top(r)
       IN /\ f.op = "getContractBytecode"
          /\ f.pc \in {"await_mirrorNode", "await_getCode"}
          /\ IF outcome = "ok"
             THEN Return(r, f, "bytecode", "", activeNetworkId, adapters)
             ELSE Return(r, f, "throw", outcome, activeNetworkId, adapters)
    /\ last' = NoCall
    /\ UNCHANGED <<utilVars, env, networks, activeNetworkId, adapterCache, adapters>>

----------------------------------------------------------------------------
(* EthereumAdapter.getGasPrice *)

\* the price the catch block answers with, in wei
defaultGasPrice(id) ==
    CASE id = "polygon-mainnet" -> "30000000000"
      [] id = "arbitrum-one" -> "100000000"
      [] id = "optimism-mainnet" -> "1000000"
      [] OTHER -> "20000000000"

\* getGasPrice() up to its first await
getGasPriceStart(r) ==
    /\ stack[r] # <<>>
    /\ LET f == Top(r)
       IN /\ f.op = "getGasPrice" /\ f.pc = "start"
          /\ adapters[f.ad].kind = "ethereum"
          /\ IF adapters[f.ad].provider = NULL
             THEN Await(r, [f EXCEPT !.pc = "await_initialize"],
                        Frame("initialize", NULL, f.ad, FALSE))
             ELSE Suspend(r, Awaits(f, "await_getGasPrice"))
    /\ last' = NoCall
    /\ UNCHANGED <<utilVars, env, networks, activeNetworkId, adapterCache, adapters>>

\* after the awaited initialize(): false or still no provider answers the
\* 20 Gwei default from inside the try block
getGasPriceAfterInitialize(r) ==
    /\ stack[r] # <<>>
    /\ LET f == Top(r)
       IN /\ f.op = "getGasPrice" /\ f.pc = "await_initialize"
          /\ f.ret # "none"
          /\ IF f.ret # "true" \/ adapters[f.ad].provider = NULL
             THEN Return(r, [f EXCEPT !.via = "provider not available"],
                         "20000000000", "", activeNetworkId, adapters)
             ELSE Suspend(r, [Awaits(f, "await_getGasPrice") EXCEPT !.ret = "none"])
    /\ last' = NoCall
    /\ UNCHANGED <<utilVars, env, networks, activeNetworkId, adapterCache, adapters>>

\* what provider.getGasPrice() raced against the 5 s timer does
GasPriceOutcomes == {"ok", "fail", "timeout"}

\* the race settles: the live price as a string, or the default of the
\* network from the catch block
getGasPriceSettle(r, outcome) ==
    /\ Quiet
    /\ stack[r] # <<>>
    /\ LET f == Top(r)
       IN /\ f.op = "getGasPrice" /\ f.pc = "await_getGasPrice"
          /\ IF outcome = "ok"
             THEN Return(r, [f EXCEPT !.via = "live"], "gasPrice.toString()", "",
                         activeNetworkId, adapters)
             ELSE Return(r, [f EXCEPT !.via = outcome],
                         defaultGasPrice(adapters[f.ad].config.id), "",
                         activeNetworkId, adapters)
    /\ last' = NoCall
    /\ UNCHANGED <<utilVars, env, networks, activeNetworkId, adapterCache, adapters>>

----------------------------------------------------------------------------
(* NetworkFactory.initializeAllAdapters *)

\* initialize() run on an adapter that nothing else refers to yet: the adapter
\* when initialize() has reached its first await or, without one, has returned
InitializeHead(a) ==
    IF a.kind = "hedera"
    THEN IF CredentialsMissing(a) THEN [a EXCEPT !.status = "disconnected"]
         ELSE IF ~(AccountIdParses(a.operatorId) /\ PrivateKeyParses(a.operatorKey))
         THEN [a EXCEPT !.client = "noOperator", !.status = "connected"]
         ELSE [a EXCEPT !.client = "operator", !.status = "connecting"]
    ELSE IF getRpcUrls(a.config) = <<>> THEN [a EXCEPT !.status = "disconnected"]
    ELSE [a EXCEPT !.provider = getRpcUrls(a.config)[1], !.status = "connecting"]

\* whether that initialize() is awaiting something
InitializeAwaits(a) == InitializeHead(a).status = "connecting"

\* the adapter when that initialize() has returned: n is the endpoint that
\* answered, 0 when none did (Ethereum), or 1 for a connection test that passed
\* and 0 for one that failed (Hedera)
InitializeSettled(a, n) ==
    IF a.kind = "hedera" THEN [a EXCEPT !.status = "connected"]
    ELSE IF n = 0 THEN [a EXCEPT !.provider = NULL, !.status = "disconnected"]
    ELSE [a EXCEPT !.provider = getRpcUrls(a.config)[n],
                   !.wallet = IF InitializesWallet(env) THEN TRUE ELSE @,
                   !.status = "connected"]

\* the outcomes n of an awaited initialize()
RpcIndexes == 0..(1 + Len(Fallbacks("ethereum-sepolia")))
SettlesAs(a, n) ==
    IF a.kind = "hedera" THEN n \in {0, 1} ELSE n \in 0..Len(getRpcUrls(a.config))

\* the enabled networks createAdapter builds an adapter for
Initializable ==
    SelectSeq(getAllNetworks,
              LAMBDA id : networks[id].isEnabled /\ createAdapter(networks[id]) # <<>>)

\* initializeAllAdapters() up to its await of Promise.all: the cache is
\* cleared, an adapter is built for every enabled network and its
\* initialize() started; an adapter whose initialize() awaits nothing is
\* cached before anything else runs.  tried[k] is the network whose adapter,
\* object i + k, is still initializing
initializeAllAdaptersStart(r) ==
    /\ stack[r] # <<>>
    /\ LET f == Top(r)
           ids == Initializable
           built == [k \in 1..Len(ids) |-> createAdapter(networks[ids[k]])[1]]
           pending == [k \in 1..Len(ids) |->
                         IF InitializeAwaits(built[k]) THEN ids[k] ELSE NULL]
           settled == {k \in 1..Len(ids) : ~InitializeAwaits(built[k])}
       IN /\ f.op = "initializeAllAdapters" /\ f.pc = "start"
          /\ adapters' = adapters \o [k \in 1..Len(ids) |-> InitializeHead(built[k])]
          /\ adapterCache' = [id \in {ids[k] : k \in settled} |->
                                Len(adapters) + CHOOSE k \in settled : ids[k] = id]
          /\ IF settled = 1..Len(ids)
             THEN Return(r, f, "void", "", activeNetworkId, adapters')
             ELSE Suspend(r, [f EXCEPT !.i = Len(adapters), !.pc = "await_all",
                                       !.tried = pending])
    /\ last' = NoCall
    /\ UNCHANGED <<utilVars, env, networks, activeNetworkId>>

\* the initialize() of object i + k returns: its adapter is put in the cache
\* under the network id, over whatever is cached there, and when it was the
\* last one Promise.all resolves
initializeAllAdaptersSettle(r, k, n) ==
    /\ Quiet
    /\ stack[r] # <<>>
    /\ LET f == Top(r)
           ref == f.i + k
       IN /\ f.op = "initializeAllAdapters" /\ f.pc = "await_all"
          /\ k \in DOMAIN f.tried
          /\ f.tried[k] # NULL
          /\ SettlesAs(adapters[ref], n)
          /\ adapters' = [adapters EXCEPT ![ref] = InitializeSettled(@, n)]
          /\ adapterCache' = MapSet(adapterCache, f.tried[k], ref)
          /\ last' = Writes("initialize", ref, <<adapters'[ref].status>>)
          /\ LET g == [f EXCEPT !.tried[k] = NULL]
             IN IF \A j \in DOMAIN g.tried : g.tried[j] = NULL
                THEN Return(r, g, "void", "", activeNetworkId, adapters')
                ELSE Suspend(r, g)
    /\ UNCHANGED <<utilVars, env, networks, activeNetworkId>>

----------------------------------------------------------------------------
(* NetworkService.changeNetwork *)

\* a bug the guard could have: the fallback tried for every network id
FallsBackAlways(networkId) == TRUE

\* the guard of the fallback in the outer catch block
FallsBack(networkId) == networkId # "hedera-testnet"

\* the outer catch block: the fallback call, or false
changeNetworkCatch(r, f, act, ads) ==
    IF FallsBack(f.net)
    THEN Await(r, [f EXCEPT !.pc = "await_changeNetwork"],
               Frame("changeNetwork", "hedera-testnet", 0, FALSE))
    ELSE Return(r, f, "false", "", act, ads)

\* the inner try block up to its await: no adapter answers false at once
changeNetworkTry(r, f, ref, act, ads) ==
    IF ref = 0
    THEN Return(r, [f EXCEPT !.via = "no adapter"], "false", "", act, ads)
    ELSE Await(r, [f EXCEPT !.pc = "await_initialize", !.ad = ref,
                            !.via = "initializing"],
               Frame("initialize", NULL, ref, FALSE))

\* changeNetwork(networkId) up to its first await
changeNetworkStart(r) ==
    /\ stack[r] # <<>>
    /\ LET f == Top(r)
       IN /\ f.op = "changeNetwork" /\ f.pc = "start"
          /\ IF getNetwork(f.net) = {}
             THEN \* throw new Error(...) lands in the outer catch block
                  /\ changeNetworkCatch(r, [f EXCEPT !.via = "not found"],
                                        activeNetworkId, adapters)
                  /\ UNCHANGED <<activeNetworkId, adapterCache, adapters>>
             ELSE /\ activeNetworkId' = f.net
                  /\ adapters' = getAdapterObjs(f.net)
                  /\ adapterCache' = getAdapterCache(f.net)
                  /\ changeNetworkTry(r, f, getAdapterRef(f.net),
                                      activeNetworkId', adapters')
    /\ last' = NoCall
    /\ UNCHANGED <<utilVars, env, networks>>

\* changeNetwork from the settling of the call it awaited
changeNetworkResume(r) ==
    /\ stack[r] # <<>>
    /\ LET f == Top(r)
       IN /\ f.op = "changeNetwork" /\ f.ret # "none"
          /\ IF f.pc = "await_initialize"
             THEN \* success, !success and the inner catch block
                  Return(r, [f EXCEPT !.via = IF f.ret = "true" THEN "initialized"
                                              ELSE "initialize failed"],
                         IF f.ret = "true" THEN "true" ELSE "false", "",
                         activeNetworkId, adapters)
             ELSE \* return await this.changeNetwork('hedera-testnet') in a try
                  Return(r, f, IF f.ret = "throw" THEN "false" ELSE f.ret, "",
                         activeNetworkId, adapters)
    /\ last' = NoCall
    /\ UNCHANGED <<utilVars, env, networks, activeNetworkId, adapterCache, adapters>>

----------------------------------------------------------------------------
(* POST /api/contract/call, from the network switch to the adapter *)

\* the handler of a request that names a network, on an initialized service:
\* await networkService.changeNetwork(networkId)
POSTStart(r) ==
    /\ stack[r] # <<>>
    /\ LET f == Top(r)
       IN /\ f.op = "POST" /\ f.pc = "start"
          /\ Await(r, [f EXCEPT !.pc = "await_changeNetwork"],
                   Frame("changeNetwork", f.net, 0, FALSE))
    /\ last' = NoCall
    /\ UNCHANGED <<utilVars, env, networks, activeNetworkId, adapterCache, adapters>>

\* switchSuccess has arrived: whatever it is, the handler goes on with
\* networkService.getAdapter(), the adapter of the network active now
POSTResume(r) ==
    /\ stack[r] # <<>>
    /\ LET f == Top(r)
           ref == IF ~Truthy(activeNetworkId) THEN 0
                  ELSE getAdapterRef(activeNetworkId)
       IN /\ f.op = "POST" /\ f.pc = "await_changeNetwork" /\ f.ret # "none"
          /\ IF ~Truthy(activeNetworkId)
             THEN UNCHANGED <<adapters, adapterCache>>
             ELSE /\ adapters' = getAdapterObjs(activeNetworkId)
                  /\ adapterCache' = getAdapterCache(activeNetworkId)
          /\ Return(r, [f EXCEPT !.ad = ref, !.via = f.ret],
                    IF ref = 0 THEN "null" ELSE "adapter", "",
                    activeNetworkId, adapters')
    /\ last' = NoCall
    /\ UNCHANGED <<utilVars, env, networks, activeNetworkId>>

----------------------------------------------------------------------------
(* Calls made by requests *)

AdapterRefs == 1..Len(adapters)
HederaRefs == {ad \in AdapterRefs : adapters[ad].kind = "hedera"}
EthereumRefs == {ad \in AdapterRefs : adapters[ad].kind = "ethereum"}

changeNetwork(r, networkId) == Call(r, "changeNetwork", networkId, 0, FALSE)

initialize(r, ad) == Call(r, "initialize", NULL, ad, FALSE)

initializeAllAdapters(r) == Call(r, "initializeAllAdapters", NULL, 0, FALSE)

POST(r, networkId) == Call(r, "POST", networkId, 0, FALSE)

getContractBytecode(r, ad) == Call(r, "getContractBytecode", NULL, ad, FALSE)

getGasPrice(r, ad) == Call(r, "getGasPrice", NULL, ad, FALSE)

getStatus(r, ad) ==
    /\ adapters[ad].kind = "hedera"
    /\ Call(r, "getStatus", NULL, ad, FALSE)

deployContract(r, ad) == Call(r, "deployContract", NULL, ad, FALSE)

callContract(r, ad, isQuery) == Call(r, "callContract", NULL, ad, isQuery)

----------------------------------------------------------------------------
(* Argument encoding: the three type switches *)

\* JavaScript values handed in as arguments, each as <<typeof, text>>: text
\* is what toString() gives (for an array, its elements joined by commas)
UNDEFINED_VALUE == <<"undefined", "undefined">>
JsValues ==
    { <<"string", "hello">>, <<"string", "42">>, <<"string", "">>,
      <<"number", "42">>, <<"number", "0">>, <<"boolean", "false">>,
      <<"array", "a,b">>, UNDEFINED_VALUE }

\* the Solidity types of the inputs: the fourteen the switches name, the two
\* array types they name, and types they do not name
ListedTypes ==
    { "string", "address", "bool", "uint8", "uint16", "uint32", "uint64",
      "uint256", "int8", "int16", "int32", "int64", "int256", "bytes32" }
ListedArrayTypes == { "string[]", "address[]" }
OtherArrayTypes == { "uint256[]", "bytes32[]", "string[][]" }
OtherTypes == { "bytes", "uint128", "tuple" }
SolidityTypes == ListedTypes \cup ListedArrayTypes \cup OtherArrayTypes \cup OtherTypes

\* input.type.includes('[]')
IncludesBrackets(type) == type \in ListedArrayTypes \cup OtherArrayTypes

\* a conversion threw
TypeError == <<"TypeError", "">>
Threw(v) == v[1] = "TypeError"

\* Boolean(value)
ToBoolean(value) ==
    IF \/ value[1] = "undefined"
       \/ value[1] = "string" /\ value[2] = ""
       \/ value[1] = "number" /\ value[2] \in {"0", "NaN"}
       \/ value[1] = "boolean" /\ value[2] = "false"
    THEN <<"boolean", "false">> ELSE <<"boolean", "true">>

\* Number(value)
ToNumber(value) ==
    CASE value[1] = "number" -> value
      [] value[1] = "boolean" ->
           <<"number", IF value[2] = "true" THEN "1" ELSE "0">>
      [] value[1] = "string" /\ value[2] = "" -> <<"number", "0">>
      [] value[1] = "string" /\ value[2] \in {"42", "0"} -> <<"number", value[2]>>
      [] OTHER -> <<"number", "NaN">>

\* value.toString(): a TypeError when value is undefined
toString(value) ==
    IF value[1] = "undefined" THEN TypeError ELSE <<"string", value[2]>>

\* Long.fromString(value.toString())
ToLong(value) ==
    IF Threw(toString(value)) THEN TypeError ELSE <<"Long", toString(value)[2]>>

\* Buffer.from(value.toString())
ToBuffer(value) ==
    IF Threw(toString(value)) THEN TypeError ELSE <<"Buffer", toString(value)[2]>>

\* Buffer.from(JSON.stringify(value)): JSON.stringify(undefined) is
\* undefined, which Buffer.from rejects with a TypeError
ToJsonBuffer(value) ==
    IF value[1] = "undefined" THEN TypeError ELSE <<"Buffer of JSON", value>>

\* what one iteration of a switch does: the method of
\* ContractFunctionParameters it calls, the argument it passes, and whether
\* it logged a warning; or the error that the conversion threw
Added(method, argument, warned) ==
    IF Threw(argument) THEN <<"throw", argument, warned>>
    ELSE <<method, argument, warned>>

\* a bug the constructor switch could have: no case for string arrays
deployContractDefaultWithoutStringArrays(type, value) ==
    IF IncludesBrackets(type)
    THEN IF type = "address[]" THEN Added("addAddressArray", value, FALSE)
         ELSE Added("addBytes", ToJsonBuffer(value), TRUE)
    ELSE Added("addBytes", ToBuffer(value), TRUE)

\* the default branch of the constructor switch
deployContractDefault(type, value) ==
    IF IncludesBrackets(type)
    THEN IF type = "string[]" THEN Added("addStringArray", value, FALSE)
         ELSE IF type = "address[]" THEN Added("addAddressArray", value, FALSE)
         ELSE Added("addBytes", ToJsonBuffer(value), TRUE)
    ELSE Added("addBytes", ToBuffer(value), TRUE)

\* the constructor switch of HederaAdapter.deployContract
deployContractSwitch(type, value) ==
    CASE type = "string" -> Added("addString", value, FALSE)
      [] type = "address" -> Added("addAddress", value, FALSE)
      [] type = "bool" -> Added("addBool", ToBoolean(value), FALSE)
      [] type = "uint8" -> Added("addUint8", ToNumber(value), FALSE)
      [] type = "uint16" -> Added("addUint16", ToNumber(value), FALSE)
      [] type = "uint32" -> Added("addUint32", ToNumber(value), FALSE)
      [] type = "uint64" -> Added("addUint64", ToLong(value), FALSE)
      [] type = "uint256" -> Added("addUint256", toString(value), FALSE)
      [] type = "int8" -> Added("addInt8", ToNumber(value), FALSE)
      [] type = "int16" -> Added("addInt16", ToNumber(value), FALSE)
      [] type = "int32" -> Added("addInt32", ToNumber(value), FALSE)
      [] type = "int64" -> Added("addInt64", ToLong(value), FALSE)
      [] type = "int256" -> Added("addInt256", toString(value), FALSE)
      [] type = "bytes32" -> Added("addBytes32", value, FALSE)
      [] OTHER -> deployContractDefault(type, value)

\* a bug createFunctionParameters could have: 64-bit integers passed as
\* JavaScript numbers
createFunctionParametersAsNumbers(type, value) ==
    IF type \in {"uint64", "int64"}
    THEN Added(IF type = "uint64" THEN "addUint64" ELSE "addInt64",
               ToNumber(value), FALSE)
    ELSE deployContractSwitch(type, value)

\* the switch of HederaAdapter.createFunctionParameters: it logs no warnings
createFunctionParameters(type, value) ==
    CASE type = "string" -> Added("addString", value, FALSE)
      [] type = "address" -> Added("addAddress", value, FALSE)
      [] type = "bool" -> Added("addBool", ToBoolean(value), FALSE)
      [] type = "uint8" -> Added("addUint8", ToNumber(value), FALSE)
      [] type = "uint16" -> Added("addUint16", ToNumber(value), FALSE)
      [] type = "uint32" -> Added("addUint32", ToNumber(value), FALSE)
      [] type = "uint64" -> Added("addUint64", ToLong(value), FALSE)
      [] type = "uint256" -> Added("addUint256", toString(value), FALSE)
      [] type = "int8" -> Added("addInt8", ToNumber(value), FALSE)
      [] type = "int16" -> Added("addInt16", ToNumber(value), FALSE)
      [] type = "int32" -> Added("addInt32", ToNumber(value), FALSE)
      [] type = "int64" -> Added("addInt64", ToLong(value), FALSE)
      [] type = "int256" -> Added("addInt256", toString(value), FALSE)
      [] type = "bytes32" -> Added("addBytes32", value, FALSE)
      [] OTHER ->
           IF IncludesBrackets(type)
           THEN IF type = "string[]" THEN Added("addStringArray", value, FALSE)
                ELSE IF type = "address[]" THEN Added("addAddressArray", value, FALSE)
                ELSE Added("addBytes", ToJsonBuffer(value), FALSE)
           ELSE Added("addBytes", ToBuffer(value), FALSE)

\* the constructor switch of the direct-deploy route
directDeploySwitch(type, value) ==
    CASE type = "string" -> Added("addString", value, FALSE)
      [] type = "address" -> Added("addAddress", value, FALSE)
      [] type = "bool" -> Added("addBool", ToBoolean(value), FALSE)
      [] type = "uint8" -> Added("addUint8", ToNumber(value), FALSE)
      [] type = "uint16" -> Added("addUint16", ToNumber(value), FALSE)
      [] type = "uint32" -> Added("addUint32", ToNumber(value), FALSE)
      [] type = "uint64" -> Added("addUint64", ToLong(value), FALSE)
      [] type = "uint256" -> Added("addUint256", toString(value), FALSE)
      [] type = "int8" -> Added("addInt8", ToNumber(value), FALSE)
      [] type = "int16" -> Added("addInt16", ToNumber(value), FALSE)
      [] type = "int32" -> Added("addInt32", ToNumber(value), FALSE)
      [] type = "int64" -> Added("addInt64", ToLong(value), FALSE)
      [] type = "int256" -> Added("addInt256", toString(value), FALSE)
      [] type = "bytes32" -> Added("addBytes32", value, FALSE)
      [] OTHER ->
           IF IncludesBrackets(type)
           THEN IF type = "string[]" THEN Added("addStringArray", value, FALSE)
                ELSE IF type = "address[]" THEN Added("addAddressArray", value, FALSE)
                ELSE Added("addBytes", ToJsonBuffer(value), TRUE)
           ELSE Added("addBytes", ToBuffer(value), TRUE)

\* the three places that encode an argument
Switches == {"deployContract", "createFunctionParameters", "direct-deploy"}
Switch(site, type, value) ==
    CASE site = "deployContract" -> deployContractSwitch(type, value)
      [] site = "createFunctionParameters" -> createFunctionParameters(type, value)
      [] site = "direct-deploy" -> directDeploySwitch(type, value)

\* one of the switches runs for the input at hand
Encode(site) ==
    /\ applied[1] \in {"input"} \cup Switches
    /\ applied[1] # site
    /\ applied' = <<site, applied[2], Switch(site, applied[2][1], applied[2][2])>>
    /\ UNCHANGED <<env, networks, activeNetworkId, last, adapterCache, adapters,
                   stack, result, contractAddressCache, lookups,
                   deploymentStatuses, post, retry>>

----------------------------------------------------------------------------
(* direct-deploy route: executeWithRetry *)

\* the defaults of executeWithRetry(operation, maxRetries = 3, initialDelay = 1000)
DefaultMaxRetries == 3
DefaultInitialDelay == 1000

\* the largest maxRetries explored, and the values of initialDelay
MaxMaxRetries == 4
InitialDelays == {DefaultInitialDelay, 250}

\* what a rejected operation() throws, as <<error.status, error.message>>:
\* the three retriable Hedera statuses, two messages that name a network
\* problem, and errors that are neither
SdkRejections ==
    { <<"Unknown", "transaction status unknown">>, <<"Busy", "node is busy">>,
      <<"ReceiptNotFound", "receipt not found">>,
      <<"", "network error: socket hang up">>, <<"", "request timeout">>,
      <<"InsufficientTxFee", "INSUFFICIENT_TX_FEE">>,
      <<"ContractRevertExecuted", "CONTRACT_REVERT_EXECUTED">> }
OperationOutcomes == {<<"ok", "">>} \cup SdkRejections

\* error.message?.includes(text)
MessageIncludes(message, text) ==
    \/ text = "network error" /\ message = "network error: socket hang up"
    \/ text = "timeout" /\ message = "request timeout"

isRetriable(error) ==
    \/ error[1] = "Unknown"
    \/ error[1] = "Busy"
    \/ error[1] = "ReceiptNotFound"
    \/ MessageIncludes(error[2], "network error")
    \/ MessageIncludes(error[2], "timeout")

\* new Error('Operation failed after maximum retries')
MaximumRetriesError == <<"", "Operation failed after maximum retries">>

\* lastError || new Error(...): lastError is <<>> while it is undefined
OrMaximumRetriesError(error) ==
    IF error = <<>> THEN MaximumRetriesError ELSE error

\* no activation of executeWithRetry yet.  log is the history of an
\* activation: <<"call", n, <<>>>> for the n-th invocation of operation,
\* <<"fail", n, error>> and <<"ok", n, value>> for its settling, and
\* <<"wait", ms, <<>>>> for a timer that was set
NoRetry ==
    [pc |-> "idle", attempt |-> 0, maxRetries |-> 0, initialDelay |-> 0,
     lastError |-> <<>>, log |-> <<>>, settled |-> <<>>]

\* the head of the while loop: another invocation, or the throw after it
LoopHead(rt) ==
    IF rt.attempt < rt.maxRetries
    THEN [rt EXCEPT !.pc = "await_operation",
                    !.log = Append(@, <<"call", rt.attempt + 1, <<>>>>)]
    ELSE [rt EXCEPT !.pc = "thrown",
                    !.settled = OrMaximumRetriesError(rt.lastError)]

\* executeWithRetry up to its first await
Entered(maxRetries, initialDelay) ==
    LoopHead([NoRetry EXCEPT !.maxRetries = maxRetries,
                             !.initialDelay = initialDelay])

\* a bug the backoff could have: the exponent one too large
BackoffFromTwo(initialDelay, attempt) == initialDelay * 2 ^ attempt

\* initialDelay * Math.pow(2, attempt - 1)
Backoff(initialDelay, attempt) == initialDelay * 2 ^ (attempt - 1)

\* a bug the catch block could have: every error counted as retriable
CaughtAlwaysRetrying(rt, error) ==
    LET attempt == rt.attempt + 1
        failed == [rt EXCEPT !.attempt = attempt, !.lastError = error,
                             !.log = Append(@, <<"fail", attempt, error>>)]
    IN IF attempt >= rt.maxRetries
       THEN [failed EXCEPT !.pc = "thrown", !.settled = error]
       ELSE [failed EXCEPT
               !.pc = "await_delay",
               !.log = Append(@, <<"wait", Backoff(rt.initialDelay, attempt), <<>>>>)]

\* a bug the catch block could have: the last attempt invoked once more
CaughtOnceMore(rt, error) ==
    LET attempt == rt.attempt + 1
        failed == [rt EXCEPT !.lastError = error,
                             !.log = Append(@, <<"fail", rt.attempt + 1, error>>)]
    IN IF ~isRetriable(error)
       THEN [failed EXCEPT !.pc = "thrown", !.settled = error]
       ELSE IF attempt > rt.maxRetries
       THEN [failed EXCEPT !.attempt = attempt, !.pc = "thrown", !.settled = error]
       ELSE [failed EXCEPT
               !.attempt = attempt,
               !.pc = "await_delay",
               !.log = Append(@, <<"wait", Backoff(rt.initialDelay, attempt), <<>>>>)]

\* the catch block: a non-retriable error is thrown again; a retriable one
\* counts the attempt, then breaks out of the loop to throw lastError or
\* sets the timer of the backoff
Caught(rt, error) ==
    LET attempt == rt.attempt + 1
        failed == [rt EXCEPT !.lastError = error,
                             !.log = Append(@, <<"fail", rt.attempt + 1, error>>)]
    IN IF ~isRetriable(error)
       THEN [failed EXCEPT !.pc = "thrown", !.settled = error]
       ELSE IF attempt >= rt.maxRetries
       THEN [failed EXCEPT !.attempt = attempt, !.pc = "thrown", !.settled = error]
       ELSE [failed EXCEPT
               !.attempt = attempt,
               !.pc = "await_delay",
               !.log = Append(@, <<"wait", Backoff(rt.initialDelay, attempt), <<>>>>)]

\* the awaited operation() settles
Settled(rt, outcome) ==
    IF outcome[1] = "ok"
    THEN [rt EXCEPT !.pc = "returned", !.settled = outcome,
                    !.log = Append(@, <<"ok", rt.attempt + 1, outcome>>)]
    ELSE Caught(rt, outcome)

InFlight(rt) == rt.pc \in {"await_operation", "await_delay"}

\* a caller other than the route's POST calls executeWithRetry
executeWithRetry(maxRetries, initialDelay) ==
    /\ post.pc \in {"idle", "responded"}
    /\ ~InFlight(retry)
    /\ retry' = Entered(maxRetries, initialDelay)
    /\ UNCHANGED <<env, networks, activeNetworkId, last, adapterCache, adapters,
                   stack, result, applied, contractAddressCache, lookups,
                   deploymentStatuses, post>>

\* the promise of operation() settles
OperationSettles(outcome) ==
    /\ retry.pc = "await_operation"
    /\ retry' = Settled(retry, outcome)
    /\ UNCHANGED <<env, networks, activeNetworkId, last, adapterCache, adapters,
                   stack, result, applied, contractAddressCache, lookups,
                   deploymentStatuses, post>>

\* the timer of the backoff fires
DelayElapses ==
    /\ retry.pc = "await_delay"
    /\ retry' = LoopHead(retry)
    /\ UNCHANGED <<env, networks, activeNetworkId, last, adapterCache, adapters,
                   stack, result, applied, contractAddressCache, lookups,
                   deploymentStatuses, post>>

----------------------------------------------------------------------------
(* direct-deploy route: POST and GET *)

\* Date.now() is read as a number of ticks, up to MaxNow
MaxNow == 1
Ticks == 0..MaxNow

\* deployments are posted while fewer than MaxStatuses statuses are stored
MaxStatuses == 2

\* deployment ids: <<"contract-1", 0>> is the deploymentId a client sent,
\* <<"deployment-", t>> and <<"error-", t>> are the template strings
\* `deployment-${Date.now()}` and `error-${Date.now()}`
ClientDeploymentId == <<"contract-1", 0>>
DeploymentIds ==
    {ClientDeploymentId} \cup {<<"deployment-", t>> : t \in Ticks}
        \cup {<<"error-", t>> : t \in Ticks}

\* the request bodies: text that is not JSON, JSON without bytecode, and a
\* deployment request with or without a deploymentId of its own
Bodies == {"not JSON", "no bytecode", "with deploymentId", "without deploymentId"}

\* no POST to the direct-deploy route yet.  now is the latest reading of the
\* clock; deploymentId is <<>> until the body has been destructured; stored
\* tells that this POST has stored 'pending'; response is what it answered
NoPost ==
    [pc |-> "idle", deploymentId |-> <<>>, now |-> 0, stored |-> FALSE,
     response |-> <<>>]

\* { status, timestamp } as stored in deploymentStatuses
StatusAt(status, t) == [status |-> status, timestamp |-> t]

\* the catch block of POST at time t: deploymentId of the try block is out
\* of scope, the id is error.deploymentId || `error-${Date.now()}` and no
\* error that reaches the block carries a deploymentId
CatchBlock(p, t) ==
    /\ deploymentStatuses' =
         MapSet(deploymentStatuses, <<"error-", t>>, StatusAt("error", t))
    /\ post' = [p EXCEPT !.pc = "responded", !.now = t,
                         !.response = <<500, <<"error-", t>>>>]

\* POST is called: it runs up to `await req.json()`
DirectDeployPOST(t) ==
    /\ post.pc \in {"idle", "responded"}
    /\ ~InFlight(retry)
    /\ Cardinality(DOMAIN deploymentStatuses) < MaxStatuses
    /\ t >= post.now
    /\ post' = [NoPost EXCEPT !.pc = "await_json", !.now = t]
    /\ UNCHANGED <<env, networks, activeNetworkId, last, adapterCache, adapters,
                   stack, result, applied, contractAddressCache, lookups,
                   deploymentStatuses, retry>>

\* the body has been read: validation, the 'pending' entry, and the
\* preparation of bytecode and credentials (prepared: it did not throw) up
\* to `await withRetry(() => initializeClient(...))`
POSTBody(body, prepared, t) ==
    /\ post.pc = "await_json"
    /\ t >= post.now
    /\ IF body = "not JSON" THEN CatchBlock(post, t)
       ELSE IF body = "no bytecode"
       THEN /\ post' = [post EXCEPT !.pc = "responded", !.response = <<400, <<>>>>]
            /\ UNCHANGED deploymentStatuses
       ELSE LET id == IF body = "with deploymentId" THEN ClientDeploymentId
                      ELSE <<"deployment-", t>>
                p == [post EXCEPT !.deploymentId = id, !.now = t, !.stored = TRUE]
            IN IF prepared
               THEN /\ deploymentStatuses' =
                         MapSet(deploymentStatuses, id, StatusAt("pending", t))
                    /\ post' = [p EXCEPT !.pc = "await_initializeClient"]
               ELSE \E u \in Ticks :
                       /\ u >= t
                       /\ deploymentStatuses' =
                            MapSet(MapSet(deploymentStatuses, id, StatusAt("pending", t)),
                                   <<"error-", u>>, StatusAt("error", u))
                       /\ post' = [p EXCEPT !.pc = "responded", !.now = u,
                                            !.response = <<500, <<"error-", u>>>>]
    /\ UNCHANGED <<env, networks, activeNetworkId, last, adapterCache, adapters,
                   stack, result, applied, contractAddressCache, lookups, retry>>

\* the awaits between the body and the submission, in order
AfterAwait(pc) ==
    CASE pc = "await_initializeClient" -> "await_checkAccountBalance"
      [] pc = "await_checkAccountBalance" -> "await_sign"
      [] pc = "await_sign" -> "await_execute"

\* one of those awaits settles.  checkAccountBalance catches its own errors;
\* after it the key is parsed and the constructor arguments are encoded,
\* which can throw (built: they did not); a signed transaction is handed to
\* executeWithRetry with the default arguments
POSTAwaited(ok, built, t) ==
    /\ post.pc \in {"await_initializeClient", "await_checkAccountBalance", "await_sign"}
    /\ t >= post.now
    /\ IF \/ ~ok /\ post.pc # "await_checkAccountBalance"
          \/ ~built /\ post.pc = "await_checkAccountBalance"
       THEN CatchBlock(post, t) /\ UNCHANGED retry
       ELSE /\ post' = [post EXCEPT !.pc = AfterAwait(post.pc)]
            /\ retry' = IF post.pc = "await_sign"
                        THEN Entered(DefaultMaxRetries, DefaultInitialDelay)
                        ELSE retry
            /\ UNCHANGED deploymentStatuses
    /\ UNCHANGED <<env, networks, activeNetworkId, last, adapterCache, adapters,
                   stack, result, applied, contractAddressCache, lookups>>

\* executeWithRetry(() => contractCreateSign.execute(client)) is over: the
\* receipt is asked for with retries, or the error reaches the catch block
POSTExecuted(t) ==
    /\ post.pc = "await_execute"
    /\ retry.pc \in {"returned", "thrown"}
    /\ t >= post.now
    /\ IF retry.pc = "thrown" THEN CatchBlock(post, t) /\ UNCHANGED retry
       ELSE /\ post' = [post EXCEPT !.pc = "await_getReceipt"]
            /\ retry' = Entered(DefaultMaxRetries, DefaultInitialDelay)
            /\ UNCHANGED deploymentStatuses
    /\ UNCHANGED <<env, networks, activeNetworkId, last, adapterCache, adapters,
                   stack, result, applied, contractAddressCache, lookups>>

\* executeWithRetry(() => contractCreateSubmit.getReceipt(client)) is over:
\* a receipt with a contract id completes the deployment
POSTReceipt(contractId, t) ==
    /\ post.pc = "await_getReceipt"
    /\ retry.pc \in {"returned", "thrown"}
    /\ t >= post.now
    /\ IF retry.pc = "thrown" \/ ~contractId THEN CatchBlock(post, t)
       ELSE /\ deploymentStatuses' =
                 MapSet(deploymentStatuses, post.deploymentId, StatusAt("completed", t))
            /\ post' = [post EXCEPT !.pc = "responded", !.now = t,
                                    !.response = <<200, post.deploymentId>>]
    /\ UNCHANGED <<env, networks, activeNetworkId, last, adapterCache, adapters,
                   stack, result, applied, contractAddressCache, lookups, retry>>

\* what GET ?id= reports: the status stored under the id, or 404
Reported(id) ==
    IF id \in DOMAIN deploymentStatuses THEN deploymentStatuses[id].status
    ELSE "Deployment not found"

DirectDeployGET(id) ==
    /\ applied' = <<"GET", id, Reported(id)>>
    /\ UNCHANGED <<env, networks, activeNetworkId, last, adapterCache, adapters,
                   stack, result, contractAddressCache, lookups,
                   deploymentStatuses, post, retry>>

----------------------------------------------------------------------------
(* Contract address helpers: the synchronous conversions *)

\* strings are sequences of characters
DecimalDigits == <<"0", "1", "2", "3", "4", "5", "6", "7", "8", "9">>
HexDigits == DecimalDigits \o <<"a", "b", "c", "d", "e", "f">>
AddressLength == 40

\* the contract ids the helpers are called with
ContractNums == {<<"7">>, <<"1", "0">>, <<"1", "2", "3", "4", "5">>}
ContractIds == {<<"0", ".", "0", ".">> \o num : num \in ContractNums}

\* String.prototype.padStart(targetLength, padString) for a one-character pad
padStart(s, targetLength, pad) ==
    IF Len(s) >= targetLength THEN s
    ELSE [i \in 1..(targetLength - Len(s)) |-> pad] \o s

\* String.prototype.includes and startsWith
includes(s, c) == \E i \in 1..Len(s) : s[i] = c
startsWith(s, prefix) ==
    Len(s) >= Len(prefix) /\ SubSeq(s, 1, Len(prefix)) = prefix

\* String.prototype.slice(2)
slice2(s) == SubSeq(s, 3, Len(s))

\* String.prototype.split('.')
RECURSIVE split(_)
split(s) ==
    IF ~includes(s, ".") THEN <<s>>
    ELSE LET i == CHOOSE i \in 1..Len(s) :
                     s[i] = "." /\ \A j \in 1..(i - 1) : s[j] # "."
         IN <<SubSeq(s, 1, i - 1)>> \o split(SubSeq(s, i + 1, Len(s)))

\* /^\d+$/
IsDigits(s) ==
    Len(s) > 0 /\ \A i \in 1..Len(s) : \E d \in 1..10 : DecimalDigits[d] = s[i]

\* /^\d+\.\d+\.\d+$/
IsHederaId(s) ==
    Len(split(s)) = 3 /\ \A i \in 1..3 : IsDigits(split(s)[i])

\* parseInt(s, 10) of a string of decimal digits
RECURSIVE parseInt(_)
parseInt(s) ==
    IF Len(s) = 0 THEN 0
    ELSE 10 * parseInt(SubSeq(s, 1, Len(s) - 1))
           + (CHOOSE d \in 0..9 : DecimalDigits[d + 1] = s[Len(s)])

\* Number.prototype.toString(16)
RECURSIVE toString16(_)
toString16(n) ==
    IF n < 16 THEN <<HexDigits[n + 1]>>
    ELSE toString16(n \div 16) \o <<HexDigits[(n % 16) + 1]>>

\* what formatToEvmAddress returns for a contract id
formatToEvmAddress(contractAddress) ==
    IF includes(contractAddress, ".") /\ contractAddress \in DOMAIN contractAddressCache
    THEN contractAddressCache[contractAddress]
    ELSE <<"0", "x">> \o padStart(split(contractAddress)[3], AddressLength, "0")

\* what formatAddressForMirrorNode returns for a contract id
formatAddressForMirrorNode(address) ==
    IF address \in DOMAIN contractAddressCache
    THEN IF startsWith(contractAddressCache[address], <<"0", "x">>)
         THEN slice2(contractAddressCache[address])
         ELSE contractAddressCache[address]
    ELSE padStart(toString16(parseInt(split(address)[3])), AddressLength, "0")

\* data.evm_address of the Mirror Node for a contract id: the number of the
\* contract in hexadecimal, or the address of a contract created with an
\* alias; NoEvmAddress is a request that failed or an answer without one
NoEvmAddress == <<>>
EvmAddresses(contractId) ==
    {<<"0", "x">> \o padStart(toString16(parseInt(split(contractId)[3])), AddressLength, "0"),
     <<"0", "x">> \o [i \in 1..AddressLength |-> IF i % 2 = 1 THEN "a" ELSE "b"]}

\* formatToEvmAddress(contractAddress) is called: without a cached mapping
\* it starts a lookup in the background and returns its own conversion
CallFormatToEvmAddress(contractAddress) ==
    /\ applied' = <<"formatToEvmAddress", contractAddress,
                    formatToEvmAddress(contractAddress)>>
    /\ lookups' = IF contractAddress \in DOMAIN contractAddressCache
                  THEN lookups ELSE lookups \cup {contractAddress}
    /\ UNCHANGED <<env, networks, activeNetworkId, last, adapterCache, adapters,
                   stack, result, contractAddressCache, deploymentStatuses,
                   post, retry>>

\* formatAddressForMirrorNode(address) is called
CallFormatAddressForMirrorNode(address) ==
    /\ IsHederaId(address)
    /\ applied' = <<"formatAddressForMirrorNode", address,
                    formatAddressForMirrorNode(address)>>
    /\ lookups' = IF address \in DOMAIN contractAddressCache
                  THEN lookups ELSE lookups \cup {address}
    /\ UNCHANGED <<env, networks, activeNetworkId, last, adapterCache, adapters,
                   stack, result, contractAddressCache, deploymentStatuses,
                   post, retry>>

\* the Mirror Node answers a lookup: fetchEvmAddressFromMirrorNode caches
\* the address under the id and the id under the address
fetchEvmAddressFromMirrorNodeSettles(contractId, evmAddress) ==
    /\ contractId \in lookups
    /\ lookups' = lookups \ {contractId}
    /\ contractAddressCache' =
         IF evmAddress = NoEvmAddress THEN contractAddressCache
         ELSE MapSet(MapSet(contractAddressCache, contractId, evmAddress),
                     evmAddress, contractId)
    /\ UNCHANGED <<env, networks, activeNetworkId, last, adapterCache, adapters,
                   stack, result, applied, deploymentStatuses, post, retry>>

----------------------------------------------------------------------------
(* The system *)

\* nothing has been encoded or converted, no deployment has been posted
NoApplication == <<"none", <<>>, <<>>>>
InitHelpers ==
    /\ contractAddressCache = <<>>
    /\ lookups = {}
InitDirectDeploy ==
    /\ deploymentStatuses = <<>>
    /\ post = NoPost
    /\ retry = NoRetry

InitNetworkLayer ==
    /\ env \in Envs
    /\ networks = initializeDefaultNetworks(env)
    /\ activeNetworkId = "hedera-testnet"
    /\ last = NoCall
    /\ adapterCache = <<>>
    /\ adapters = <<>>
    /\ stack = [r \in Requests |-> <<>>]
    /\ result = [r \in Requests |-> NoResult]

Init ==
    /\ InitNetworkLayer
    /\ applied = NoApplication
    /\ InitHelpers
    /\ InitDirectDeploy

One == {"r1"}

HederaBalanceOutcomes == {"ok", "fail", "timeout"}
ReceiptOutcomes == SdkOutcomes \cup {"Failed to get contract ID from receipt"}
SendOutcomes == EthersOutcomes \cup {"tx.wait is not a function"}

\* every call any request can make, every step of every call in flight
Next ==
    \/ \E network \in AddableNetworks : addNetwork(network)
    \/ \E id \in AllIds, updates \in Updates : updateNetwork(id, updates)
    \/ \E id \in AllIds : removeNetwork(id)
    \/ \E id \in AllIds : setActiveNetwork(id)
    \/ \E id \in AllIds : getAdapter(id)
    \/ getActiveAdapter
    \/ \E r \in Requests : initializeAllAdapters(r)
    \/ \E r \in Requests : initializeAllAdaptersStart(r)
    \/ \E r \in Requests, k \in AdapterRefs, n \in RpcIndexes :
          initializeAllAdaptersSettle(r, k, n)
    \/ \E r \in Requests, id \in AllIds : changeNetwork(r, id)
    \/ \E r \in Requests, ad \in AdapterRefs : initialize(r, ad)
    \/ \E r \in Requests, ad \in AdapterRefs : getStatus(r, ad)
    \/ \E r \in Requests, ad \in AdapterRefs : deployContract(r, ad)
    \/ \E r \in Requests, ad \in AdapterRefs, q \in BOOLEAN : callContract(r, ad, q)
    \/ \E r \in Requests : changeNetworkStart(r)
    \/ \E r \in Requests : changeNetworkResume(r)
    \/ \E r \in Requests : EthereumInitializeStart(r)
    \/ \E r \in Requests, o \in RpcOutcomes : EthereumInitializeGetNetwork(r, o)
    \/ \E r \in Requests : HederaInitializeStart(r)
    \/ \E r \in Requests, o \in HederaBalanceOutcomes : HederaInitializeBalance(r, o)
    \/ \E r \in Requests : HederaGetStatusStart(r)
    \/ \E r \in Requests, o \in SdkOutcomes : HederaGetStatusQuery(r, o)
    \/ \E r \in Requests : HederaDeployStart(r)
    \/ \E r \in Requests : HederaDeployAfterInitialize(r)
    \/ \E r \in Requests, o \in SdkOutcomes : HederaDeployExecute(r, o)
    \/ \E r \in Requests, o \in ReceiptOutcomes : HederaDeployGetReceipt(r, o)
    \/ \E r \in Requests : HederaCallStart(r)
    \/ \E r \in Requests : HederaCallAfterInitialize(r)
    \/ \E r \in Requests, o \in SdkOutcomes : HederaCallQuery(r, o)
    \/ \E r \in Requests, o \in SdkOutcomes : HederaCallExecute(r, o)
    \/ \E r \in Requests, o \in SdkOutcomes : HederaCallGetReceipt(r, o)
    \/ \E r \in Requests, g \in BOOLEAN : EthereumDeployStart(r, g)
    \/ \E r \in Requests, g \in BOOLEAN : EthereumDeployAfterInitialize(r, g)
    \/ \E r \in Requests, o \in EthersOutcomes : EthereumEstimateGas(r, o)
    \/ \E r \in Requests, o \in EthersOutcomes : EthereumDeploySend(r, o)
    \/ \E r \in Requests, o \in EthersOutcomes : EthereumDeployed(r, o)
    \/ \E r \in Requests, abi \in BOOLEAN, g \in BOOLEAN : EthereumCallStart(r, abi, g)
    \/ \E r \in Requests, abi \in BOOLEAN, g \in BOOLEAN :
          EthereumCallAfterInitialize(r, abi, g)
    \/ \E r \in Requests, o \in EthersOutcomes : EthereumCallQuery(r, o)
    \/ \E r \in Requests, o \in SendOutcomes : EthereumCallSend(r, o)
    \/ \E r \in Requests, o \in EthersOutcomes : EthereumCallWait(r, o)
    \/ \E r \in Requests, ad \in AdapterRefs : getContractBytecode(r, ad)
    \/ \E r \in Requests : getContractBytecodeStart(r)
    \/ \E r \in Requests : getContractBytecodeAfterInitialize(r)
    \/ \E r \in Requests, o \in BytecodeOutcomes : getContractBytecodeSettle(r, o)
    \/ \E r \in Requests, id \in AllIds : POST(r, id)
    \/ \E r \in Requests : POSTStart(r)
    \/ \E r \in Requests : POSTResume(r)
    \/ \E r \in Requests, ad \in EthereumRefs : getGasPrice(r, ad)
    \/ \E r \in Requests : getGasPriceStart(r)
    \/ \E r \in Requests : getGasPriceAfterInitialize(r)
    \/ \E r \in Requests, o \in GasPriceOutcomes : getGasPriceSettle(r, o)

Spec == Init /\ [][Next]_vars

\* the registry driven through its own methods
NextRegistry ==
    \/ \E network \in AddableNetworks : addNetwork(network)
    \/ \E id \in AllIds, updates \in Updates : updateNetwork(id, updates)
    \/ \E id \in AllIds : removeNetwork(id)
    \/ \E id \in AllIds : setActiveNetwork(id)

SpecRegistry == Init /\ [][NextRegistry]_vars

\* one request at a time switching networks through the service, while
\* networks are added to and removed from the registry
NextService ==
    \/ \E network \in AddableNetworks : addNetwork(network)
    \/ \E id \in AllIds : removeNetwork(id)
    \/ \E r \in One, id \in AllIds : changeNetwork(r, id)
    \/ \E r \in One : changeNetworkStart(r)
    \/ \E r \in One : changeNetworkResume(r)
    \/ \E r \in One : EthereumInitializeStart(r)
    \/ \E r \in One, o \in RpcOutcomes : EthereumInitializeGetNetwork(r, o)
    \/ \E r \in One : HederaInitializeStart(r)
    \/ \E r \in One, o \in HederaBalanceOutcomes : HederaInitializeBalance(r, o)

SpecService == Init /\ [][NextService]_vars

\* one request at a time calling the adapters the factory hands out
NextAdapter ==
    \/ \E network \in AddableNetworks : addNetwork(network)
    \/ \E id \in AllIds : getAdapter(id)
    \/ \E r \in One, ad \in AdapterRefs : initialize(r, ad)
    \/ \E r \in One, ad \in HederaRefs : deployContract(r, ad)
    \/ \E r \in One, ad \in HederaRefs, q \in BOOLEAN : callContract(r, ad, q)
    \/ \E r \in One : EthereumInitializeStart(r)
    \/ \E r \in One, o \in RpcOutcomes : EthereumInitializeGetNetwork(r, o)
    \/ \E r \in One : HederaInitializeStart(r)
    \/ \E r \in One, o \in HederaBalanceOutcomes : HederaInitializeBalance(r, o)
    \/ \E r \in One : HederaDeployStart(r)
    \/ \E r \in One : HederaDeployAfterInitialize(r)
    \/ \E r \in One, o \in SdkOutcomes : HederaDeployExecute(r, o)
    \/ \E r \in One, o \in ReceiptOutcomes : HederaDeployGetReceipt(r, o)
    \/ \E r \in One : HederaCallStart(r)
    \/ \E r \in One : HederaCallAfterInitialize(r)
    \/ \E r \in One, o \in SdkOutcomes : HederaCallQuery(r, o)
    \/ \E r \in One, o \in SdkOutcomes : HederaCallExecute(r, o)
    \/ \E r \in One, o \in SdkOutcomes : HederaCallGetReceipt(r, o)

SpecAdapter == Init /\ [][NextAdapter]_vars

\* two requests initializing the adapters the factory hands out, so that one
\* initialize() can start on an adapter while another is awaiting an endpoint
NextOverlap ==
    \/ \E id \in AllIds : getAdapter(id)
    \/ \E r \in Requests, ad \in AdapterRefs : initialize(r, ad)
    \/ \E r \in Requests : EthereumInitializeStart(r)
    \/ \E r \in Requests, o \in RpcOutcomes : EthereumInitializeGetNetwork(r, o)
    \/ \E r \in Requests : HederaInitializeStart(r)
    \/ \E r \in Requests, o \in HederaBalanceOutcomes : HederaInitializeBalance(r, o)

SpecOverlap == Init /\ [][NextOverlap]_vars

\* the adapter objects the model lets the factory build
MaxAdapters == 4

\* the factory handing out adapters and initializing all of them, while
\* networks are removed from the registry and made active
NextFactory ==
    \/ \E id \in AllIds : removeNetwork(id)
    \/ \E id \in AllIds : setActiveNetwork(id)
    \/ \E id \in AllIds : Len(adapters) < MaxAdapters /\ getAdapter(id)
    \/ Len(adapters) < MaxAdapters /\ getActiveAdapter
    \/ \E r \in One :
          /\ Len(adapters) + Len(getAllNetworks) <= MaxAdapters
          /\ initializeAllAdapters(r)
    \/ \E r \in One : initializeAllAdaptersStart(r)
    \/ \E r \in One, k \in AdapterRefs, n \in RpcIndexes :
          initializeAllAdaptersSettle(r, k, n)

SpecFactory == Init /\ [][NextFactory]_vars

\* the registry as constructed from a table of defaults that also holds
\* ethereum-goerli and polygon-mainnet
InitEndpoints ==
    /\ env \in Envs
    /\ networks =
         MapSet(MapSet(initializeDefaultNetworks(env), "ethereum-goerli",
                       applyEnvironmentOverrides(env, EthereumGoerli)),
                "polygon-mainnet", applyEnvironmentOverrides(env, PolygonMainnet))
    /\ activeNetworkId = "hedera-testnet"
    /\ last = NoCall
    /\ adapterCache = <<>>
    /\ adapters = <<>>
    /\ stack = [r \in Requests |-> <<>>]
    /\ result = [r \in Requests |-> NoResult]
    /\ applied = NoApplication
    /\ InitHelpers
    /\ InitDirectDeploy

\* the ids adapters are asked for: two defaults, and the id of the custom
\* network with the websocket endpoint
EthereumIds == {"ethereum-sepolia", "ethereum-goerli", ""}

\* one request at a time initializing the adapters of default and custom
\* Ethereum networks, whose endpoints answer, fail or time out
NextEndpoints ==
    \/ \E network \in AddableNetworks : addNetwork(network)
    \/ \E id \in EthereumIds : getAdapter(id)
    \/ \E r \in One, ad \in AdapterRefs : initialize(r, ad)
    \/ \E r \in One : EthereumInitializeStart(r)
    \/ \E r \in One, o \in RpcOutcomes : EthereumInitializeGetNetwork(r, o)

SpecEndpoints == InitEndpoints /\ [][NextEndpoints]_vars

\* one request at a time asking the adapters of two default Ethereum
\* networks for the gas price
NextGasPrice ==
    \/ \E id \in {"ethereum-sepolia", "polygon-mainnet"} : getAdapter(id)
    \/ \E r \in One, ad \in EthereumRefs : getGasPrice(r, ad)
    \/ \E r \in One : getGasPriceStart(r)
    \/ \E r \in One : getGasPriceAfterInitialize(r)
    \/ \E r \in One, o \in GasPriceOutcomes : getGasPriceSettle(r, o)
    \/ \E r \in One : EthereumInitializeStart(r)
    \/ \E r \in One, o \in RpcOutcomes : EthereumInitializeGetNetwork(r, o)

SpecGasPrice == InitEndpoints /\ [][NextGasPrice]_vars

\* an input definition of any type paired with an argument value, encoded
\* by the three switches in any order
InitEncode ==
    /\ InitNetworkLayer
    /\ applied \in {<<"input", <<type, value>>, <<>>>> :
                        type \in SolidityTypes, value \in JsValues}
    /\ InitHelpers
    /\ InitDirectDeploy

NextEncode == \E site \in Switches : Encode(site)

SpecEncode == InitEncode /\ [][NextEncode]_vars

\* executeWithRetry called with any maxRetries and delay, its operation
\* resolving or rejecting in any way
NextRetry ==
    \/ \E maxRetries \in 0..MaxMaxRetries, initialDelay \in InitialDelays :
          executeWithRetry(maxRetries, initialDelay)
    \/ \E outcome \in OperationOutcomes : OperationSettles(outcome)
    \/ DelayElapses

SpecRetry == Init /\ [][NextRetry]_vars

\* the same, where a promise that can settle does settle and a timer fires
SpecRetryFair ==
    /\ SpecRetry
    /\ WF_vars(\E outcome \in OperationOutcomes : OperationSettles(outcome))
    /\ WF_vars(DelayElapses)

\* the address helpers called with contract ids while the Mirror Node
\* answers the lookups they start
NextAddress ==
    \/ \E id \in ContractIds : CallFormatToEvmAddress(id)
    \/ \E id \in ContractIds : CallFormatAddressForMirrorNode(id)
    \/ \E id \in ContractIds :
          \E evmAddress \in EvmAddresses(id) \cup {NoEvmAddress} :
              fetchEvmAddressFromMirrorNodeSettles(id, evmAddress)

SpecAddress == Init /\ [][NextAddress]_vars

\* deployments posted to the direct-deploy route one after the other, and
\* their status asked for at any moment
NextDirectDeploy ==
    \/ \E t \in Ticks : DirectDeployPOST(t)
    \/ \E body \in Bodies, prepared \in BOOLEAN, t \in Ticks : POSTBody(body, prepared, t)
    \/ \E ok \in BOOLEAN, built \in BOOLEAN, t \in Ticks : POSTAwaited(ok, built, t)
    \/ \E t \in Ticks : POSTExecuted(t)
    \/ \E contractId \in BOOLEAN, t \in Ticks : POSTReceipt(contractId, t)
    \/ \E outcome \in OperationOutcomes : OperationSettles(outcome)
    \/ DelayElapses
    \/ \E id \in DeploymentIds : DirectDeployGET(id)

SpecDirectDeploy == Init /\ [][NextDirectDeploy]_vars

\* the registry driven through its own methods with custom networks of any
\* id and chain
NextConfig ==
    \/ \E network \in CustomNetworks : addNetwork(network)
    \/ \E id \in AllIds, updates \in Updates : updateNetwork(id, updates)
    \/ \E id \in AllIds : removeNetwork(id)
    \/ \E id \in AllIds : setActiveNetwork(id)

SpecConfig == Init /\ [][NextConfig]_vars

\* one request at a time deploying and calling contracts and fetching
\* bytecode through the adapters of both kinds
NextContract ==
    \/ \E id \in AllIds : getAdapter(id)
    \/ \E r \in One, ad \in AdapterRefs : deployContract(r, ad)
    \/ \E r \in One, ad \in AdapterRefs, q \in BOOLEAN : callContract(r, ad, q)
    \/ \E r \in One : EthereumInitializeStart(r)
    \/ \E r \in One, o \in RpcOutcomes : EthereumInitializeGetNetwork(r, o)
    \/ \E r \in One : HederaInitializeStart(r)
    \/ \E r \in One, o \in HederaBalanceOutcomes : HederaInitializeBalance(r, o)
    \/ \E r \in One : HederaDeployStart(r)
    \/ \E r \in One : HederaDeployAfterInitialize(r)
    \/ \E r \in One, o \in SdkOutcomes : HederaDeployExecute(r, o)
    \/ \E r \in One, o \in ReceiptOutcomes : HederaDeployGetReceipt(r, o)
    \/ \E r \in One : HederaCallStart(r)
    \/ \E r \in One : HederaCallAfterInitialize(r)
    \/ \E r \in One, o \in SdkOutcomes : HederaCallQuery(r, o)
    \/ \E r \in One, o \in SdkOutcomes : HederaCallExecute(r, o)
    \/ \E r \in One, o \in SdkOutcomes : HederaCallGetReceipt(r, o)
    \/ \E r \in One, g \in BOOLEAN : EthereumDeployStart(r, g)
    \/ \E r \in One, g \in BOOLEAN : EthereumDeployAfterInitialize(r, g)
    \/ \E r \in One, o \in EthersOutcomes : EthereumEstimateGas(r, o)
    \/ \E r \in One, o \in EthersOutcomes : EthereumDeploySend(r, o)
    \/ \E r \in One, o \in EthersOutcomes : EthereumDeployed(r, o)
    \/ \E r \in One, abi \in BOOLEAN, g \in BOOLEAN : EthereumCallStart(r, abi, g)
    \/ \E r \in One, abi \in BOOLEAN, g \in BOOLEAN :
          EthereumCallAfterInitialize(r, abi, g)
    \/ \E r \in One, o \in EthersOutcomes : EthereumCallQuery(r, o)
    \/ \E r \in One, o \in SendOutcomes : EthereumCallSend(r, o)
    \/ \E r \in One, o \in EthersOutcomes : EthereumCallWait(r, o)
    \/ \E r \in One, ad \in AdapterRefs : getContractBytecode(r, ad)
    \/ \E r \in One : getContractBytecodeStart(r)
    \/ \E r \in One : getContractBytecodeAfterInitialize(r)
    \/ \E r \in One, o \in BytecodeOutcomes : getContractBytecodeSettle(r, o)

SpecContract == Init /\ [][NextContract]_vars

\* two requests to the route, each naming the network its call is for
NextRoute ==
    \/ \E r \in Requests, id \in AllIds : POST(r, id)
    \/ \E r \in Requests : POSTStart(r)
    \/ \E r \in Requests : POSTResume(r)
    \/ \E r \in Requests : changeNetworkStart(r)
    \/ \E r \in Requests : changeNetworkResume(r)
    \/ \E r \in Requests : EthereumInitializeStart(r)
    \/ \E r \in Requests, o \in RpcOutcomes : EthereumInitializeGetNetwork(r, o)
    \/ \E r \in Requests : HederaInitializeStart(r)
    \/ \E r \in Requests, o \in HederaBalanceOutcomes : HederaInitializeBalance(r, o)

SpecRoute == Init /\ [][NextRoute]_vars

\* two requests initializing the Hedera adapters and asking for their status
NextStatus ==
    \/ \E id \in AllIds : getAdapter(id)
    \/ \E r \in Requests, ad \in HederaRefs : initialize(r, ad)
    \/ \E r \in Requests, ad \in HederaRefs : getStatus(r, ad)
    \/ \E r \in Requests : HederaInitializeStart(r)
    \/ \E r \in Requests, o \in HederaBalanceOutcomes : HederaInitializeBalance(r, o)
    \/ \E r \in Requests : HederaGetStatusStart(r)
    \/ \E r \in Requests, o \in SdkOutcomes : HederaGetStatusQuery(r, o)

SpecStatus == Init /\ [][NextStatus]_vars

----------------------------------------------------------------------------
(* Properties of NetworkRegistry *)

\* C1: setActiveNetwork(id) with an id that is not registered returns false
\* and leaves the active id, and with it getActiveNetwork(), as they were;
\* with a registered id it returns true and id is the active network
C1_SetActiveNetwork ==
    [][last'.op = "setActiveNetwork" =>
         IF last'.id \in DOMAIN networks
         THEN /\ last'.ret = "true"
              /\ activeNetworkId' = last'.id
         ELSE /\ last'.ret = "false"
              /\ activeNetworkId' = activeNetworkId
              /\ getActiveNetwork' = getActiveNetwork]_vars

\* an unknown id has just been refused while a network chosen by an earlier,
\* accepted call is active
C1_Witness ==
    /\ last = [op |-> "setActiveNetwork", id |-> "unknown-net",
               ret |-> "false", ref |-> 0, writes |-> <<>>]
    /\ activeNetworkId = "ethereum-sepolia"
    /\ getActiveNetwork = {networks["ethereum-sepolia"]}

\* C2: after any sequence of addNetwork, updateNetwork, removeNetwork and
\* setActiveNetwork calls the active id is not null and names a registered
\* network, so getActiveNetwork() is not undefined
C2_ActiveNetworkDefined ==
    /\ activeNetworkId # NULL
    /\ activeNetworkId \in DOMAIN networks
    /\ getActiveNetwork # {}

\* C3: removeNetwork(id) of the active network returns false and leaves the
\* registered networks and the active id as they were; removeNetwork of a
\* registered network that is not active removes that network and no other,
\* returns true and leaves the active id as it was
C3_RemoveNetwork ==
    [][last'.op = "removeNetwork" =>
         /\ activeNetworkId' = activeNetworkId
         /\ last'.id = activeNetworkId =>
              /\ last'.ret = "false"
              /\ networks' = networks
         /\ (last'.id # activeNetworkId /\ last'.id \in DOMAIN networks) =>
              /\ last'.ret = "true"
              /\ DOMAIN networks' = DOMAIN networks \ {last'.id}
              /\ \A id \in DOMAIN networks' : networks'[id] = networks[id]]_vars

\* the removal of the active network has just been refused, after the
\* removal of hedera-testnet while another network was active went through
C3_Witness ==
    /\ last.op = "removeNetwork" /\ last.ret = "false"
    /\ last.id = activeNetworkId
    /\ activeNetworkId \in DOMAIN networks
    /\ "hedera-testnet" \notin DOMAIN networks

----------------------------------------------------------------------------
(* Properties of NetworkService.changeNetwork *)

\* C4: when the requested network is registered and its adapter cannot be
\* created or does not initialize, changeNetwork has made hedera-testnet the
\* active network by the time it returns
C4_FallsBackToHederaTestnet ==
    \A r \in Requests :
        (/\ result[r].op = "changeNetwork"
         /\ result[r].via \in {"no adapter", "initialize failed"})
        => result[r].active = "hedera-testnet"

\* the steps a call in flight of request r can take
C5_Step(r) ==
    \/ changeNetworkStart(r)
    \/ changeNetworkResume(r)
    \/ EthereumInitializeStart(r)
    \/ \E o \in RpcOutcomes : EthereumInitializeGetNetwork(r, o)
    \/ HederaInitializeStart(r)
    \/ \E o \in HederaBalanceOutcomes : HederaInitializeBalance(r, o)

\* C5: changeNetwork(id) settles with true or false and never with a thrown
\* error, for registered and unknown ids and for hedera-testnet when that is
\* not registered; a call has at most one changeNetwork call inside it, and a
\* call in flight can always take its next step
C5_ChangeNetworkResolves ==
    \A r \in Requests :
        /\ result[r].op = "changeNetwork" => result[r].ret \in {"true", "false"}
        /\ \A i \in DOMAIN stack[r] :
              stack[r][i].pc = "await_changeNetwork" =>
                  stack[r][i].ret \in {"none", "true", "false"}
        /\ Cardinality({i \in DOMAIN stack[r] :
                           stack[r][i].op = "changeNetwork"}) <= 2
        /\ Len(stack[r]) <= 3
        /\ stack[r] # <<>> => ENABLED C5_Step(r)

\* an unknown id was requested while hedera-testnet was not registered: the
\* fallback call was made, failed, and the call answered false
C5_Witness ==
    /\ result["r1"].op = "changeNetwork"
    /\ result["r1"].net = "unknown-net"
    /\ result["r1"].via = "not found"
    /\ result["r1"].ret = "false"
    /\ "hedera-testnet" \notin DOMAIN networks

----------------------------------------------------------------------------
(* Properties of the adapters' initialize() *)

\* C6: initialize() of either adapter settles with true, never with false or
\* a thrown error, whatever the credentials, the endpoints and the wallet do
C6_InitializeReturnsTrue ==
    \A r \in Requests :
        result[r].op = "initialize" => result[r].ret = "true"

\* an Ethereum initialize() that connected and whose wallet could not be
\* built from the configured key, and a Hedera initialize() that found
\* placeholder credentials
C6_Witness ==
    /\ env.ETHEREUM_PRIVATE_KEY = "not-a-key"
    /\ result["r1"].op = "initialize"
    /\ result["r1"].adapter.kind = "ethereum"
    /\ result["r1"].via = "connected" /\ ~result["r1"].made
    /\ result["r2"].op = "initialize"
    /\ result["r2"].adapter.kind = "hedera"
    /\ result["r2"].via = "read-only"

\* C7: EthereumAdapter.initialize() tries the candidate URLs in list order
\* with the configured rpcUrl first, tries none after the first that
\* responds, and returns with the provider bound to that URL and the status
\* CONNECTED
C7_TriesInOrderAndBinds ==
    \A r \in Requests :
        (result[r].op = "initialize" /\ result[r].adapter.kind = "ethereum") =>
            LET x == result[r]
                candidates == getRpcUrls(x.adapter.config)
            IN /\ Len(x.tried) <= Len(candidates)
               /\ x.tried = SubSeq(candidates, 1, Len(x.tried))
               /\ x.tried # <<>> => x.tried[1] = x.adapter.config.rpcUrl
               /\ x.via = "connected" =>
                    /\ x.adapter.provider = x.tried[Len(x.tried)]
                    /\ x.adapter.status = "connected"

\* C8: when every candidate URL has failed or timed out, initialize()
\* returns true with provider null and status DISCONNECTED, and has built
\* no wallet
C8_ExhaustedIsDisconnected ==
    \A r \in Requests :
        (/\ result[r].op = "initialize"
         /\ result[r].adapter.kind = "ethereum"
         /\ result[r].via = "exhausted")
        => /\ result[r].ret = "true"
           /\ result[r].adapter.provider = NULL
           /\ result[r].adapter.status = "disconnected"
           /\ ~result[r].made

\* all three endpoints of ethereum-sepolia were tried and none responded
C8_Witness ==
    \E r \in Requests :
        /\ result[r].op = "initialize"
        /\ result[r].via = "exhausted"
        /\ Len(result[r].tried) = 3
        /\ result[r].adapter.config.id = "ethereum-sepolia"

----------------------------------------------------------------------------
(* Properties of HederaAdapter without operator credentials *)

\* operatorId or operatorKey is missing or is a placeholder
Uncredentialed(a) ==
    /\ a.kind = "hedera"
    /\ \/ a.operatorId = NULL
       \/ a.operatorKey = NULL
       \/ a.operatorId = "0.0.YOUR_ACCOUNT_ID"
       \/ a.operatorKey = "YOUR_PRIVATE_KEY"

\* C9: with operatorId or operatorKey missing or a placeholder, initialize()
\* returns true and leaves no client and the status DISCONNECTED, and
\* deployContract returns {success: false} with a message that is not empty
C9_ReadOnlyInitializeAndDeploy ==
    \A r \in Requests :
        Uncredentialed(result[r].adapter) =>
            /\ result[r].op = "initialize" =>
                 /\ result[r].ret = "true"
                 /\ result[r].adapter.client = "null"
                 /\ result[r].adapter.status = "disconnected"
            /\ result[r].op = "deployContract" =>
                 /\ result[r].ret = "failure"
                 /\ result[r].error # ""
                 /\ result[r].adapter.client = "null"

\* a deployContract on an adapter holding a placeholder account id was
\* answered with the message of the missing client
C9_Witness ==
    /\ result["r1"].op = "deployContract"
    /\ result["r1"].adapter.operatorId = "0.0.YOUR_ACCOUNT_ID"
    /\ result["r1"].adapter.status = "disconnected"
    /\ result["r1"].ret = "failure"
    /\ result["r1"].error = "Hedera client not initialized"

\* C10: on a HederaAdapter without operator credentials callContract with
\* isQuery = true succeeds, and callContract with isQuery = false returns an
\* error result
C10_ReadsWorkWithoutCredentials ==
    \A r \in Requests :
        (result[r].op = "callContract" /\ Uncredentialed(result[r].adapter)) =>
            IF result[r].q THEN result[r].ret = "success"
            ELSE result[r].ret = "failure"

----------------------------------------------------------------------------
(* Properties of HederaAdapter.status *)

\* the values status goes through in a step: the value before it, then the
\* values the step assigns
StatusTrail(ad) ==
    <<adapters[ad].status>> \o (IF last'.ref = ad THEN last'.writes ELSE <<>>)

\* the changes along a trail, as pairs <<from, to>>
Changes(trail) ==
    {<<trail[k], trail[k + 1]>> : k \in {j \in 1..(Len(trail) - 1) : trail[j] # trail[j + 1]}}

\* getStatus is at its liveness query on adapter ad, which it makes only
\* after finding the adapter CONNECTED with a client
AtLivenessQuery(ad) ==
    \E r \in Requests :
        /\ stack[r] # <<>>
        /\ Top(r).op = "getStatus" /\ Top(r).pc = "await_liveness" /\ Top(r).ad = ad

\* C11 as stated: every change of HederaAdapter.status is DISCONNECTED to
\* CONNECTING, CONNECTING to CONNECTED or CONNECTED to ERROR, and the step to
\* ERROR is taken only by getStatus() when its liveness query fails on a
\* CONNECTED adapter that has a client
C11_StatusChangesAsStated ==
    [][\A ad \in HederaRefs :
         /\ adapters'[ad].status = StatusTrail(ad)[Len(StatusTrail(ad))]
         /\ Changes(StatusTrail(ad)) \subseteq
              {<<"disconnected", "connecting">>, <<"connecting", "connected">>,
               <<"connected", "error">>}
         /\ <<"connected", "error">> \in Changes(StatusTrail(ad)) =>
              /\ last'.op = "getStatus"
              /\ AtLivenessQuery(ad)
              /\ adapters[ad].client # "null"]_vars

\* C11: status changes only where initialize() or getStatus() assigns it;
\* initialize() assigns CONNECTING first, whatever the status was, and then
\* DISCONNECTED (credentials missing) or CONNECTED; ERROR is assigned only by
\* getStatus(), when the liveness query it made on finding the adapter
\* CONNECTED with a client fails
C11_StatusWrites ==
    [][\A ad \in HederaRefs :
         /\ adapters'[ad].status = StatusTrail(ad)[Len(StatusTrail(ad))]
         /\ (last'.ref = ad /\ last'.writes # <<>>) =>
              \/ /\ last'.op = "initialize"
                 /\ last'.writes \in
                      {<<"connecting">>, <<"connecting", "disconnected">>,
                       <<"connecting", "connected">>, <<"connected">>}
                 /\ last'.writes = <<"connecting", "disconnected">> =>
                      CredentialsMissing(adapters[ad])
              \/ /\ last'.op = "getStatus"
                 /\ last'.writes = <<"error">>
                 /\ AtLivenessQuery(ad)
                 /\ adapters[ad].client # "null"]_vars

\* getStatus() has marked ERROR an adapter that a second initialize() had
\* taken from CONNECTED back to CONNECTING
C11_Witness ==
    /\ last.op = "getStatus" /\ last.writes = <<"error">>
    /\ \E r \in Requests :
         /\ stack[r] # <<>>
         /\ Top(r).op = "initialize" /\ Top(r).pc = "await_balance"
         /\ Top(r).ad = last.ref

----------------------------------------------------------------------------
(* Properties of deployContract and callContract *)

\* the remote calls that submit a transaction, and those that wait for its receipt
Submits == {"await_execute", "await_sendTransaction", "await_deploy"}
WaitsForReceipt == {"await_getReceipt", "await_wait", "await_deployed"}

\* the remote calls in a list that belong to a set
Among(tried, calls) == SelectSeq(tried, LAMBDA c : c \in calls)

\* C12: for both adapters, callContract with isQuery = true performs only a
\* read-only query, it never submits a transaction and never waits for a
\* receipt; with isQuery = false it submits exactly one transaction and
\* awaits its receipt before it returns a success result
C12_QueryReadsCallWrites ==
    \A r \in Requests :
        /\ \A k \in 1..Len(stack[r]) :
              LET f == stack[r][k]
              IN f.op = "callContract" =>
                   IF f.q
                   THEN Among(f.tried, {"await_query", "await_call"}) = f.tried
                   ELSE Len(Among(f.tried, Submits)) <= 1
        /\ result[r].op = "callContract" =>
              IF result[r].q
              THEN /\ Among(result[r].tried, {"await_query", "await_call"}) = result[r].tried
                   /\ result[r].ret = "success" => Len(result[r].tried) = 1
              ELSE /\ Len(Among(result[r].tried, Submits)) <= 1
                   /\ result[r].ret = "success" =>
                        /\ Among(result[r].tried, Submits \cup WaitsForReceipt) \in
                             {<<"await_execute", "await_getReceipt">>,
                              <<"await_sendTransaction", "await_wait">>}
                        /\ result[r].tried[Len(result[r].tried)] \in WaitsForReceipt

\* a state-changing call on an Ethereum adapter has estimated its gas, sent
\* its transaction, waited for the receipt and returned success
C12_Witness ==
    \E r \in Requests :
        /\ result[r].op = "callContract" /\ ~result[r].q
        /\ result[r].ret = "success"
        /\ result[r].adapter.kind = "ethereum"
        /\ result[r].tried = <<"await_estimateGas", "await_sendTransaction", "await_wait">>

\* the result of r is that of a deployContract or callContract on an
\* EthereumAdapter that has a provider but no wallet
Walletless(r) ==
    /\ result[r].op \in {"deployContract", "callContract"}
    /\ result[r].adapter.kind = "ethereum"
    /\ result[r].adapter.provider # NULL
    /\ ~result[r].adapter.wallet

\* C13 as stated: on an EthereumAdapter that has a provider but no wallet,
\* callContract with isQuery = true succeeds using the provider alone (it
\* fails only where the read itself fails), while deployContract and
\* callContract with isQuery = false resolve to {success: false} carrying
\* the 'No wallet configured' error and submit no transaction
C13_WalletlessAsStated ==
    \A r \in Requests :
        Walletless(r) =>
            IF result[r].op = "callContract" /\ result[r].q
            THEN /\ result[r].tried = <<"await_call">>
                 /\ result[r].ret = "failure" =>
                      result[r].error \in {ethereumErrorMessage("callContract", e) : e \in EthersErrors}
            ELSE /\ result[r].ret = "failure"
                 /\ result[r].error = "No wallet configured"
                 /\ Among(result[r].tried, Submits) = <<>>

\* C13: on an EthereumAdapter that has a provider but no wallet, callContract
\* without an ABI resolves to {success: false} with 'ABI is required for
\* contract calls' and makes no remote call; given an ABI, callContract with
\* isQuery = true makes the read on the provider alone and succeeds when the
\* read resolves, while deployContract, and callContract with isQuery = false
\* given an ABI, resolve to {success: false} carrying the 'No wallet
\* configured' error, having made no remote call
C13_Walletless ==
    \A r \in Requests :
        Walletless(r) =>
            IF result[r].op = "callContract" /\ result[r].error = "ABI is required for contract calls"
            THEN result[r].ret = "failure" /\ result[r].tried = <<>>
            ELSE IF result[r].op = "callContract" /\ result[r].q
            THEN /\ result[r].tried = <<"await_call">>
                 /\ result[r].ret = "failure" =>
                      result[r].error \in {ethereumErrorMessage("callContract", e) : e \in EthersErrors}
            ELSE /\ result[r].ret = "failure"
                 /\ result[r].error = "No wallet configured"
                 /\ result[r].tried = <<>>

\* a state-changing call was refused for want of a wallet by an adapter
\* that has a provider
C13_Witness ==
    \E r \in Requests :
        /\ Walletless(r)
        /\ result[r].op = "callContract" /\ ~result[r].q
        /\ result[r].error = "No wallet configured"

\* C16: no adapter operation that calls a vendor SDK or a remote endpoint
\* lets the failure escape as a rejected promise: the failure is reported to
\* the caller as a returned value, {success: false, error: <string>} for
\* deployContract and callContract
C16_FailuresAreReturned ==
    \A r \in Requests :
        /\ result[r].op \in {"deployContract", "callContract", "getContractBytecode"} =>
              result[r].ret # "throw"
        /\ (result[r].op \in {"deployContract", "callContract"}
              /\ result[r].ret # "success") =>
              result[r].ret = "failure" /\ result[r].error # ""

----------------------------------------------------------------------------
(* Properties of NetworkFactory *)

\* the adapter objects that were built for a network id and returned by the
\* factory to a caller
HandedOutFor(id) ==
    {ad \in AdapterRefs : adapters[ad].config.id = id /\ adapters[ad].handedOut}

\* C14: NetworkFactory holds one adapter instance per network id for the
\* lifetime of the process: whatever getAdapter, getActiveAdapter and
\* initializeAllAdapters calls were made, a call that returns an adapter for
\* a network id returns the instance that every earlier call for the id returned
C14_OneInstancePerNetwork ==
    [][(last'.op \in {"getAdapter", "getActiveAdapter"} /\ last'.ref # 0) =>
         HandedOutFor(last'.id) \subseteq {last'.ref}]_vars

\* C15: NetworkFactory.getAdapter(networkId) returns null if networkId is not
\* a network present in the registry at the time of the call
C15_NullForUnregistered ==
    [][(last'.op = "getAdapter" /\ ~has(last'.id)) => last'.ref = 0]_vars

----------------------------------------------------------------------------
(* Properties of concurrent requests *)

\* C17: concurrent requests do not race on the active network: when a
\* request awaits changeNetwork(A) for a registered network A and receives
\* true, the adapter it then obtains from networkService.getAdapter() is the
\* adapter of A, whatever another request does with changeNetwork(B)
C17_AdapterOfRequestedNetwork ==
    \A r \in Requests :
        (result[r].op = "POST" /\ result[r].via = "true" /\ has(result[r].net)) =>
            /\ result[r].ad # 0
            /\ result[r].adapter.config.id = result[r].net


\* ---------------------------------------------------------------------
\* configurations held by the registry

\* the registered configuration of id differs after the step
Reconfigured(id) ==
    /\ id \in DOMAIN networks
    /\ id \in DOMAIN networks'
    /\ networks'[id] # networks[id]

\* C18: once a network id is registered, the configuration getNetwork(id)
\* returns changes only as the result of updateNetwork(id, updates); no
\* other operation changes the configuration of an id that stays registered
C18_ConfigChangesOnlyByUpdate ==
    [][\A id \in AllIds :
         Reconfigured(id) => (last'.op = "updateNetwork" /\ last'.id = id)]_vars

\* the chain ids of the registered networks that have one
ChainIdOf(id) == networks[id].chainId

\* C19: any two distinct registered network ids have configurations with
\* different chainId values, so a chainId identifies at most one network
C19_ChainIdsDistinct ==
    \A a, b \in DOMAIN networks :
        (a # b /\ ChainIdOf(a) # 0 /\ ChainIdOf(b) # 0) =>
            ChainIdOf(a) # ChainIdOf(b)


\* ---------------------------------------------------------------------
\* backup endpoints

\* getRpcUrls lists an endpoint other than the primary one of config
HasBackup(config) ==
    \E i \in 1..Len(getRpcUrls(config)) : getRpcUrls(config)[i] # config.rpcUrl

\* the initialize() that request r made gave up on every endpoint it had
GaveUp(r) ==
    /\ result[r].op = "initialize"
    /\ result[r].adapter.kind = "ethereum"
    /\ result[r].via = "exhausted"

\* C20: every registered Ethereum network has a backup RPC URL besides its
\* primary one, and an initialize() that gives up has attempted an endpoint
\* other than the primary before it did
C20_BackupEndpointTried ==
    /\ \A id \in DOMAIN networks :
          networks[id].type = "ethereum" => HasBackup(networks[id])
    /\ \A r \in Requests :
          GaveUp(r) =>
             \E i \in 1..Len(result[r].tried) :
                 result[r].tried[i] # result[r].adapter.config.rpcUrl


\* ---------------------------------------------------------------------
\* gas price

\* request r asked an Ethereum adapter for the gas price and got no live one
NoLivePrice(r) ==
    /\ result[r].op = "getGasPrice"
    /\ result[r].adapter.kind = "ethereum"
    /\ result[r].via # "live"

\* C21: whenever getGasPrice() of an Ethereum adapter cannot obtain a live
\* price (no provider, a failed call, a timeout) it does not throw and
\* answers the hardcoded price of the adapter's own network
C21_FallbackPriceOfOwnNetwork ==
    \A r \in Requests :
        NoLivePrice(r) =>
            result[r].ret = defaultGasPrice(result[r].adapter.config.id)


\* ---------------------------------------------------------------------
\* argument encoding

\* the input definition and the argument that were encoded, and by which switch
EncodedBy(site) == applied[1] = site
InputType == applied[2][1]
ArgumentValue == applied[2][2]
Present == ArgumentValue # UNDEFINED_VALUE

\* C22 (as stated): HederaAdapter.deployContract with a constructor input
\* of type string[] takes the unsupported-type fallback: raw bytes and a
\* warning, without throwing
C22_StringArrayFallsBack ==
    (EncodedBy("deployContract") /\ InputType = "string[]") =>
        (applied[3][1] = "addBytes" /\ applied[3][3])

\* C22: HederaAdapter.deployContract encodes a constructor input of type
\* string[] with addStringArray, unconverted and without a warning; the
\* fallback to the bytes of the JSON text, with a warning, is taken by the
\* array types other than string[] and address[] when the argument is present
C22_StringArrayIsSupported ==
    EncodedBy("deployContract") =>
        /\ InputType = "string[]" =>
              applied[3] = <<"addStringArray", ArgumentValue, FALSE>>
        /\ (InputType \in OtherArrayTypes /\ Present) =>
              applied[3] = <<"addBytes", <<"Buffer of JSON", ArgumentValue>>, TRUE>>

C22_Witness ==
    /\ EncodedBy("deployContract")
    /\ InputType = "string[]"
    /\ applied[3][1] = "addStringArray"

\* the method called and the argument passed agree with every other switch
SameEncoding ==
    \A site \in Switches :
        /\ applied[3][1] = Switch(site, InputType, ArgumentValue)[1]
        /\ applied[3][2] = Switch(site, InputType, ArgumentValue)[2]

Unlisted == InputType \notin ListedTypes \cup ListedArrayTypes

LogOf(kind) == SelectSeq(retry.log, LAMBDA e : e[1] = kind)
Failure(p) == retry.log[p][1] = "fail"

\* C24: after the k-th consecutive retriable failure executeWithRetry waits
\* initialDelay * 2^(k-1) ms and only then makes the next attempt; after the
\* failure of the final allowed attempt it does not wait
C24_ExponentialBackoff ==
    /\ \A p \in DOMAIN retry.log :
          (Failure(p) /\ isRetriable(retry.log[p][3])) =>
              LET k == retry.log[p][2]
              IN IF k < retry.maxRetries
                 THEN /\ p < Len(retry.log)
                      /\ retry.log[p + 1] =
                            <<"wait", retry.initialDelay * 2 ^ (k - 1), <<>>>>
                 ELSE p = Len(retry.log) /\ retry.pc = "thrown"
    /\ \A p \in DOMAIN retry.log :
          (retry.log[p][1] = "call" /\ retry.log[p][2] > 1) =>
              retry.log[p - 1][1] = "wait"
    /\ (retry.maxRetries = DefaultMaxRetries
           /\ retry.initialDelay = DefaultInitialDelay) =>
          \A k \in DOMAIN LogOf("wait") : LogOf("wait")[k][2] = k * 1000

C24_Witness ==
    /\ retry.pc = "thrown"
    /\ retry.maxRetries = DefaultMaxRetries
    /\ retry.initialDelay = DefaultInitialDelay
    /\ Len(LogOf("fail")) = 3
    /\ LogOf("wait") = << <<"wait", 1000, <<>>>>, <<"wait", 2000, <<>>>> >>

\* what an activation that is over must look like: at most maxRetries
\* invocations; the value of the first invocation that succeeded, with no
\* invocation after it; the error of the last invocation when all of them
\* failed with retriable errors
RetryOutcome ==
    /\ Len(LogOf("call")) <= retry.maxRetries
    /\ Len(LogOf("ok")) <= 1
    /\ retry.pc = "returned" =>
          /\ retry.log[Len(retry.log)][1] = "ok"
          /\ retry.settled = retry.log[Len(retry.log)][3]
    /\ Len(LogOf("ok")) = 1 => retry.pc = "returned"
    /\ (retry.pc = "thrown" /\ retry.maxRetries > 0
           /\ Len(LogOf("fail")) = retry.maxRetries) =>
          /\ retry.log[Len(retry.log)][1] = "fail"
          /\ retry.settled = retry.log[Len(retry.log)][3]

C26_NonRetriableRethrown ==
    \A p \in DOMAIN retry.log :
        (Failure(p) /\ ~isRetriable(retry.log[p][3])) =>
            /\ p = Len(retry.log)
            /\ retry.pc = "thrown"
            /\ retry.settled = retry.log[p][3]

C26_Witness ==
    /\ retry.pc = "thrown"
    /\ ~isRetriable(retry.settled)
    /\ retry.settled # MaximumRetriesError
    /\ Len(LogOf("fail")) = 2
    /\ retry.maxRetries = 4


\* ---------------------------------------------------------------------
\* what a true from changeNetwork means

\* C27: whenever changeNetwork(id) resolves to true, the registry's active
\* network at that moment is id
C27_TrueMeansSwitched ==
    \A r \in Requests :
        (result[r].op = "changeNetwork" /\ result[r].ret = "true") =>
            result[r].active = result[r].net


\* ---------------------------------------------------------------------
\* overlapping initialize() calls on one EthereumAdapter

\* C29: on an EthereumAdapter the status CONNECTED implies a provider, in
\* every reachable state, also when initialize() is called again on the
\* adapter while an earlier initialize() awaits an endpoint
C29_ConnectedHasProvider ==
    \A ad \in EthereumRefs :
        adapters[ad].status = "connected" => adapters[ad].provider # NULL


\* C28: every deployment id that a POST to the direct-deploy route has stored
\* with status 'pending' is reported as 'completed' or 'error' once that POST
\* has responded: 'pending' is only ever reported for the id of the POST
\* that is still running
PostRunning ==
    post.pc \notin {"idle", "responded"}

C28_PendingOnlyWhileRunning ==
    \A id \in DeploymentIds :
        Reported(id) = "pending" => (PostRunning /\ post.deploymentId = id)

\* C30: for a Hedera contract id without a cached Mirror Node mapping,
\* formatToEvmAddress(id) is '0x' followed by formatAddressForMirrorNode(id)
Uncached(id) ==
    id \notin DOMAIN contractAddressCache

C30_FallbackConversionsAgree ==
    \A id \in ContractIds :
        (applied[1] = "formatToEvmAddress" /\ applied[2] = id /\ Uncached(id)) =>
            applied[3] = <<"0", "x">> \o formatAddressForMirrorNode(id)

============================================================================
